---- MODULE Spec2Model ----
(***************************************************************************)
(* A model of protodex's dependency fetcher, dependency resolver and       *)
(* protoc argument assembly.                                               *)
(*                                                                         *)
(* Strings of the program are sequences of tokens (TLA+ strings); the      *)
(* tokens that the code tests for ("/", "://", "github.com", "v", ...) are *)
(* tokens of their own, so that the string functions of the code           *)
(* (HasPrefix, TrimPrefix, Split, Join) act on them as they do on bytes.   *)
(* A path of the file system is a sequence of segments, <<>> the root.     *)
(***************************************************************************)
EXTENDS Integers, Sequences, FiniteSets, TLC

VARIABLES
    fs,     \* the file system: a function from the paths that exist to nodes
    tmp,    \* the number of files in os.TempDir() left by download
    nops,   \* the number of operations run so far
    last,   \* what the last Fetch was called with, what it returned and saw
    cfg,    \* the project file: ProjectConfig (Dependencies, Languages, Plugins)
    run,    \* the last ResolveDependencies call: its steps and what it returned
    onPath, \* the executables exec.LookPath finds
    gen,    \* the last Generate call: its arguments and what it ran
    cmd,    \* the last generate command: its arguments and how far it got
    parse,  \* the last ParseSource call: its input and what it returned
    cache,  \* the last call on the resolver, and what the calls before it left
    project,\* the dependencies the project file holds, and the last AddDependency
    procs   \* the concurrent invocations of one fetch: where each of them is

vars == <<fs, tmp, nops, last, cfg, run, onPath, gen, cmd, parse, cache, project, procs>>

(***************************************************************************)
(* Bounds of the model.                                                    *)
(***************************************************************************)
MaxOps == 2
MaxFail == 1

(***************************************************************************)
(* strings                                                                 *)
(***************************************************************************)
HasPrefix(s, p) == Len(p) <= Len(s) /\ SubSeq(s, 1, Len(p)) = p

TrimPrefix(s, p) == IF HasPrefix(s, p) THEN SubSeq(s, Len(p) + 1, Len(s)) ELSE s

HasSuffix(s, p) == Len(p) <= Len(s) /\ SubSeq(s, Len(s) - Len(p) + 1, Len(s)) = p

TrimSuffix(s, p) == IF HasSuffix(s, p) THEN SubSeq(s, 1, Len(s) - Len(p)) ELSE s

\* strings.Split(s, sep) for a one-token separator: the parts, in order.
RECURSIVE Split(_, _)
Split(s, sep) ==
    LET idx == {i \in 1..Len(s) : s[i] = sep}
    IN  IF idx = {} THEN <<s>>
        ELSE LET i == CHOOSE j \in idx : \A k \in idx : j <= k
             IN  <<SubSeq(s, 1, i - 1)>> \o Split(SubSeq(s, i + 1, Len(s)), sep)

\* strings.Join(parts, sep)
RECURSIVE JoinParts(_, _)
JoinParts(parts, sep) ==
    IF parts = <<>> THEN <<>>
    ELSE IF Len(parts) = 1 THEN parts[1]
    ELSE parts[1] \o <<sep>> \o JoinParts(Tail(parts), sep)

\* The text of a token sequence, as one path segment.
RECURSIVE Concat(_)
Concat(s) == IF s = <<>> THEN "" ELSE Head(s) \o Concat(Tail(s))

(***************************************************************************)
(* paths                                                                   *)
(***************************************************************************)
\* The working directory of the process.
Cwd == <<"w">>

\* filepath.Clean on the segments of an absolute path.
RECURSIVE clean(_, _)
clean(acc, rest) ==
    IF rest = <<>> THEN acc
    ELSE LET h == Head(rest)
         IN  IF h = "" \/ h = "." THEN clean(acc, Tail(rest))
             ELSE IF h = ".."
                  THEN clean(IF acc = <<>> THEN acc ELSE SubSeq(acc, 1, Len(acc) - 1), Tail(rest))
             ELSE clean(Append(acc, h), Tail(rest))

\* filepath.Abs: the absolute, cleaned path a path string names (what the
\* operating system resolves a path argument to, before following links).
Abs(s) ==
    LET parts == Split(s, "/")
        segs  == [i \in 1..Len(parts) |-> Concat(parts[i])]
    IN  clean(<<>>, (IF s # <<>> /\ s[1] = "/" THEN <<>> ELSE Cwd) \o segs)

\* filepath.Join(a, b)
Join(a, b) == a \o <<"/">> \o b

\* filepath.Dir of an absolute path
Dir(p) == IF p = <<>> THEN p ELSE SubSeq(p, 1, Len(p) - 1)

(***************************************************************************)
(* the file system                                                         *)
(***************************************************************************)
NoPath == <<"">>

DirNode == [kind |-> "dir", target |-> <<>>]
FileNode == [kind |-> "file", target |-> <<>>]
LinkNode(t) == [kind |-> "link", target |-> t]

Put(f, p, node) == [q \in DOMAIN f \cup {p} |-> IF q = p THEN node ELSE f[q]]

\* Path resolution: the path p names after every symbolic link on the way,
\* the last segment included, is followed. The last segment may be missing
\* (the result is then not in DOMAIN f); NoPath when a directory on the way
\* is missing or is a file, or on a loop of links.
RECURSIVE walk(_, _, _, _)
walk(f, cur, rest, fuel) ==
    IF rest = <<>> THEN cur
    ELSE IF Append(cur, Head(rest)) \notin DOMAIN f
    THEN (IF Len(rest) = 1 THEN Append(cur, Head(rest)) ELSE NoPath)
    ELSE IF f[Append(cur, Head(rest))].kind = "link"
    THEN (IF fuel = 0 THEN NoPath
          ELSE walk(f, <<>>, f[Append(cur, Head(rest))].target \o Tail(rest), fuel - 1))
    ELSE IF f[Append(cur, Head(rest))].kind = "file"
    THEN (IF Len(rest) = 1 THEN Append(cur, Head(rest)) ELSE NoPath)
    ELSE walk(f, Append(cur, Head(rest)), Tail(rest), fuel)

realpath(f, p) == walk(f, <<>>, p, Cardinality(DOMAIN f))

kindAt(f, r) == IF r = NoPath \/ r \notin DOMAIN f THEN "none" ELSE f[r].kind

\* os.Stat(p): the kind of the node p names, "none" when there is none.
Stat(f, p) == kindAt(f, realpath(f, p))

Exists(f, p) == Stat(f, p) # "none"

IsDir(f, p) == Stat(f, p) = "dir"

namesIn(f, r) ==
    {q[Len(q)] : q \in {x \in DOMAIN f : Len(x) = Len(r) + 1 /\ SubSeq(x, 1, Len(r)) = r}}

\* os.ReadDir(p): the names in directory p (p a directory)
ReadDir(f, p) == namesIn(f, realpath(f, p))

\* os.MkdirAll(p)
RECURSIVE mkdirAll(_, _, _, _)
mkdirAll(f, cur, rest, fuel) ==
    IF rest = <<>> THEN [ok |-> TRUE, fs |-> f]
    ELSE IF Append(cur, Head(rest)) \notin DOMAIN f
    THEN mkdirAll(Put(f, Append(cur, Head(rest)), DirNode), Append(cur, Head(rest)),
                  Tail(rest), fuel)
    ELSE IF f[Append(cur, Head(rest))].kind = "link"
    THEN (IF fuel = 0 \/ ~IsDir(f, Append(cur, Head(rest))) THEN [ok |-> FALSE, fs |-> f]
          ELSE mkdirAll(f, <<>>, f[Append(cur, Head(rest))].target \o Tail(rest), fuel - 1))
    ELSE IF f[Append(cur, Head(rest))].kind = "file" THEN [ok |-> FALSE, fs |-> f]
    ELSE mkdirAll(f, Append(cur, Head(rest)), Tail(rest), fuel)

MkdirAll(f, p) == mkdirAll(f, <<>>, p, Cardinality(DOMAIN f))

createAt(f, r) ==
    IF r = NoPath \/ r = <<>> THEN [ok |-> FALSE, fs |-> f]
    ELSE IF r \in DOMAIN f /\ f[r].kind = "dir" THEN [ok |-> FALSE, fs |-> f]
    ELSE [ok |-> TRUE, fs |-> Put(f, r, FileNode)]

\* os.Create(p): the file is created or truncated; the directory must exist.
Create(f, p) == createAt(f, realpath(f, p))

symlinkIn(f, target, d, name) ==
    IF d = NoPath \/ d \notin DOMAIN f THEN [ok |-> FALSE, fs |-> f]
    ELSE IF f[d].kind # "dir" \/ Append(d, name) \in DOMAIN f THEN [ok |-> FALSE, fs |-> f]
    ELSE [ok |-> TRUE, fs |-> Put(f, Append(d, name), LinkNode(target))]

\* os.Symlink(target, p): fails when p exists or its directory does not.
Symlink(f, target, p) ==
    IF p = <<>> THEN [ok |-> FALSE, fs |-> f]
    ELSE symlinkIn(f, target, realpath(f, Dir(p)), p[Len(p)])

\* One file of an archive is written: its directory is made, the file is
\* created, and the content is copied (copyFails: the copy fails).
fileCreated(f, cr, copyFails) ==
    IF ~cr.ok THEN [fs |-> f, err |-> "create"]
    ELSE IF copyFails THEN [fs |-> cr.fs, err |-> "copy"]
    ELSE [fs |-> cr.fs, err |-> ""]

dirMade(md, p, copyFails) ==
    IF ~md.ok THEN [fs |-> md.fs, err |-> "mkdir"]
    ELSE fileCreated(md.fs, Create(md.fs, p), copyFails)

WriteEntry(f, p, copyFails) == dirMade(MkdirAll(f, Dir(p)), p, copyFails)

(***************************************************************************)
(* the environment of one fetch: what the network and the disk do          *)
(***************************************************************************)
\* Zip archives a server may send: the entry names in archive order; a name
\* that ends with "/" is a directory entry.
ArchEmpty == <<>>
ArchRepo == << <<"r-1", "/">>, <<"r-1", "/", "x.proto">>,
               <<"r-1", "/", "proto", "/", "y.proto">> >>
ArchMarked == << <<".protodex_fetched">> >>
ArchProtoc == << <<"bin", "/", "protoc">>, <<"include", "/">>,
                 <<"include", "/", "google", "/", "protobuf", "/", "any.proto">> >>
Archives == {ArchEmpty, ArchRepo, ArchMarked, ArchProtoc}

\* dl: how the download ends ("get": transport error, "status": not 200,
\* "mktemp": os.CreateTemp fails, "copy": io.Copy to the temporary file
\* fails, "close": closing it fails); zipOk: the body is a zip archive;
\* failAt = k > 0: copying the k-th extracted file fails; markerOk: the disk
\* accepts the marker file.
DlFailures == {"get", "status", "mktemp", "copy", "close"}

Env ==
    {[dl |-> d, zipOk |-> TRUE, arch |-> ArchEmpty, failAt |-> 0, markerOk |-> TRUE] :
        d \in DlFailures}
    \cup {[dl |-> "ok", zipOk |-> FALSE, arch |-> ArchEmpty, failAt |-> 0, markerOk |-> TRUE]}
    \cup [dl : {"ok"}, zipOk : {TRUE}, arch : Archives, failAt : 0..MaxFail,
          markerOk : BOOLEAN]

(***************************************************************************)
(* fetcher                                                                 *)
(* An operation takes the state it runs in, st = [fs, tmp, reqs] (reqs:    *)
(* the URLs requested so far), and returns [st, err]: the state it leaves  *)
(* and its error, "" for nil.                                              *)
(***************************************************************************)
FetchedMarkerFile == <<".protodex_fetched">>

SourceLocal == "local"
SourceGitHub == "github"
SourceHTTP == "http"
SourceGoogleWellKnown == "google-well-known"
SourceProtodex == "protodex"

NewFetcher(sourceType, source, version, dest) ==
    [SourceType |-> sourceType,
     Source |-> source,
     Version |-> version,
     Dest |-> IF sourceType = SourceLocal /\ dest = <<>> THEN source ELSE dest]

IsDirEntry(name) == name # <<>> /\ name[Len(name)] = "/"

isFetched_anyContent(f, path) ==
    IF ~Exists(f, Abs(path)) THEN FALSE
    ELSE IF ~IsDir(f, Abs(path)) THEN FALSE
    ELSE ReadDir(f, Abs(path)) # {}

isFetched(f, path) ==
    IF ~Exists(f, Abs(path)) THEN FALSE
    ELSE IF ~IsDir(f, Abs(path)) THEN FALSE
    ELSE IF ReadDir(f, Abs(path)) = {} THEN FALSE
    ELSE IF ~Exists(f, Abs(Join(path, FetchedMarkerFile))) THEN FALSE
    ELSE TRUE

\* download: the request is recorded, and a temporary file is on disk from
\* os.CreateTemp on.
download(st, url, e) ==
    IF e.dl = "get" THEN [st |-> [st EXCEPT !.reqs = Append(@, url)], err |-> "get"]
    ELSE IF e.dl = "status"
    THEN [st |-> [st EXCEPT !.reqs = Append(@, url)], err |-> "HTTP status"]
    ELSE IF e.dl = "mktemp"
    THEN [st |-> [st EXCEPT !.reqs = Append(@, url)], err |-> "create temp"]
    ELSE IF e.dl = "copy"
    THEN [st |-> [st EXCEPT !.reqs = Append(@, url), !.tmp = @ + 1], err |-> "copy"]
    ELSE IF e.dl = "close"
    THEN [st |-> [st EXCEPT !.reqs = Append(@, url), !.tmp = @ + 1], err |-> "close"]
    ELSE [st |-> [st EXCEPT !.reqs = Append(@, url), !.tmp = @ + 1], err |-> ""]

markerCreated(st, c, e) ==
    IF ~e.markerOk \/ ~c.ok THEN [st |-> st, err |-> "failed to create fetched marker"]
    ELSE [st |-> [st EXCEPT !.fs = c.fs], err |-> ""]

markAsFetched(f, st, e) ==
    markerCreated(st, Create(st.fs, Abs(Join(f.Dest, FetchedMarkerFile))), e)

\* extractZip from entry i on; n files have been written.
RECURSIVE extractZipFrom(_, _, _, _, _, _)
RECURSIVE extractZipNext(_, _, _, _, _, _)
extractZipFrom(f, arch, i, destPath, failAt, n) ==
    IF i > Len(arch) THEN [fs |-> f, err |-> ""]
    ELSE IF IsDirEntry(arch[i]) THEN extractZipFrom(f, arch, i + 1, destPath, failAt, n)
    ELSE extractZipNext(WriteEntry(f, Abs(Join(destPath, arch[i])), n + 1 = failAt),
                        arch, i, destPath, failAt, n)

extractZipNext(w, arch, i, destPath, failAt, n) ==
    IF w.err # "" THEN w
    ELSE extractZipFrom(w.fs, arch, i + 1, destPath, failAt, n + 1)

extractZip(f, e, destPath) ==
    IF ~e.zipOk THEN [fs |-> f, err |-> "zip"]
    ELSE extractZipFrom(f, e.arch, 1, destPath, e.failAt, 0)

\* The end of downloadAndExtract and downloadAndExtractGithub once the
\* download succeeded: x is what the extraction left, and the deferred
\* os.Remove(zipPath) runs.
extracted(st, x) == [st |-> [st EXCEPT !.fs = x.fs, !.tmp = @ - 1], err |-> x.err]

downloaded(f, d, e) ==
    IF d.err # "" THEN [st |-> d.st, err |-> "failed to download from URL"]
    ELSE extracted(d.st, extractZip(d.st.fs, e, f.Dest))

downloadAndExtract(f, st, e) == downloaded(f, download(st, f.Source, e), e)

\* strings.Contains and strings.LastIndex for a one-token substring (0: none)
Contains(s, t) == \E i \in 1..Len(s) : s[i] = t
LastIndex(s, t) == IF Contains(s, t) THEN CHOOSE i \in 1..Len(s) : s[i] = t /\ \A j \in (i + 1)..Len(s) : s[j] # t ELSE 0
Index(s, t) == IF Contains(s, t) THEN CHOOSE i \in 1..Len(s) : s[i] = t /\ \A j \in 1..(i - 1) : s[j] # t ELSE 0

\* A token that can be the scheme of a URL: it begins with a letter and
\* holds letters, digits, "+", "-" and "." only.
SchemeLike(t) == t \notin {"", ".", "..", "/", "@", ":", "://", "?", "1x", "32.0"}

\* strings.ToLower, on the tokens of the model that hold capitals
ToLower(t) ==
    IF t = "HTTPS" THEN "https" ELSE IF t = "GitHub" THEN "github"
    ELSE IF t = "FILE" THEN "file" ELSE t

\* What comes before the first "/" and before the query of s.
firstSegment(s) ==
    SubSeq(s, 1, IF Contains(s, "/") /\ (~Contains(s, "?") \/ Index(s, "/") < Index(s, "?"))
                 THEN Index(s, "/") - 1
                 ELSE IF Contains(s, "?") THEN Index(s, "?") - 1 ELSE Len(s))

\* The authority and path of a URL after "scheme://": the host is what
\* follows the user information, the path what starts at the first "/",
\* and a query (from "?" on) belongs to neither.
urlHierarchy(scheme, rest) ==
    [ok |-> TRUE, Scheme |-> scheme,
     Host |-> SubSeq(rest, LastIndex(SubSeq(rest, 1, IF Contains(rest, "/")
                                                      THEN Index(rest, "/") - 1 ELSE Len(rest)),
                                     "@") + 1,
                     IF Contains(rest, "/") THEN Index(rest, "/") - 1 ELSE Len(rest)),
     Path |-> IF Contains(rest, "/") THEN SubSeq(rest, Index(rest, "/"), Len(rest)) ELSE <<>>]

\* url.Parse: a colon at the start does not parse; "scheme://rest" has a
\* host and a path, "scheme:rest" has a path when rest is rooted and is
\* opaque (no host, no path) otherwise; the scheme is put in lower case;
\* anything else has no scheme and is a path, which does not parse when a
\* colon stands in its first segment.
urlParse(s) ==
    IF s # <<>> /\ s[1] \in {"://", ":"}
    THEN [ok |-> FALSE, Scheme |-> "", Host |-> <<>>, Path |-> <<>>]
    ELSE IF Len(s) >= 2 /\ s[2] = "://" /\ SchemeLike(s[1])
    THEN urlHierarchy(ToLower(s[1]),
                      SubSeq(s, 3, IF Contains(s, "?") THEN Index(s, "?") - 1 ELSE Len(s)))
    ELSE IF Len(s) >= 2 /\ s[2] = ":" /\ SchemeLike(s[1])
    THEN [ok |-> TRUE, Scheme |-> ToLower(s[1]), Host |-> <<>>,
          Path |-> IF Len(s) >= 3 /\ s[3] = "/"
                   THEN SubSeq(s, 3, IF Contains(s, "?") THEN Index(s, "?") - 1 ELSE Len(s))
                   ELSE <<>>]
    ELSE IF Contains(firstSegment(s), ":") \/ Contains(firstSegment(s), "://")
    THEN [ok |-> FALSE, Scheme |-> "", Host |-> <<>>, Path |-> <<>>]
    ELSE [ok |-> TRUE, Scheme |-> "", Host |-> <<>>,
          Path |-> SubSeq(s, 1, IF Contains(s, "?") THEN Index(s, "?") - 1 ELSE Len(s))]

\* urlFetched, were the marker written before the error is looked at.
urlFetched_markFirst(f, x, e) ==
    [st |-> markAsFetched(f, x.st, e).st,
     err |-> IF x.err # "" THEN "failed to fetch from URL" ELSE ""]

\* urlFetch after downloadAndExtract returned x: a failure to write the
\* marker is dropped.
urlFetched(f, x, e) ==
    IF x.err # "" THEN [st |-> x.st, err |-> "failed to fetch from URL"]
    ELSE [st |-> markAsFetched(f, x.st, e).st, err |-> ""]

urlFetch(f, st, e) ==
    IF ~urlParse(f.Source).ok THEN [st |-> st, err |-> "invalid URL"]
    ELSE IF urlParse(f.Source).Scheme # "http" /\ urlParse(f.Source).Scheme # "https"
    THEN [st |-> st, err |-> "unsupported URL scheme"]
    ELSE IF isFetched(st.fs, f.Dest) THEN [st |-> st, err |-> ""]
    ELSE urlFetched(f, downloadAndExtract(f, st, e), e)

symlinked(st, ln) ==
    IF ~ln.ok THEN [st |-> st, err |-> "failed to create symlink"]
    ELSE [st |-> [st EXCEPT !.fs = ln.fs], err |-> ""]

\* localFetch, were the two paths compared before the source is looked up.
localFetch_compareFirst(f, st) ==
    IF Abs(f.Source) = Abs(f.Dest) THEN [st |-> st, err |-> ""]
    ELSE IF ~Exists(st.fs, Abs(f.Source))
    THEN [st |-> st, err |-> "source path does not exist"]
    ELSE symlinked(st, Symlink(st.fs, Abs(f.Source), Abs(f.Dest)))

localFetch(f, st) ==
    IF ~Exists(st.fs, Abs(f.Source))
    THEN [st |-> st, err |-> "source path does not exist"]
    ELSE IF Abs(f.Source) = Abs(f.Dest) THEN [st |-> st, err |-> ""]
    ELSE symlinked(st, Symlink(st.fs, Abs(f.Source), Abs(f.Dest)))

(***************************************************************************)
(* GitHub archives                                                         *)
(***************************************************************************)
firstFile(arch) ==
    CHOOSE j \in 1..Len(arch) :
        ~IsDirEntry(arch[j]) /\ \A k \in 1..(j - 1) : IsDirEntry(arch[k])

\* The "top/" prefix extractGitHubZip strips: the first segment of the first
\* file entry, <<>> when the archive holds no file.
rootPrefixFrom(arch) ==
    IF \A i \in 1..Len(arch) : IsDirEntry(arch[i]) THEN <<>>
    ELSE Split(arch[firstFile(arch)], "/")[1] \o <<"/">>

\* relativePathOf, were the subdirectory compared without the "/" after it.
relativePathOf_noSeparator(name, rootPrefix, subDir) ==
    IF subDir = <<>> THEN TrimPrefix(name, rootPrefix)
    ELSE IF ~HasPrefix(TrimPrefix(name, rootPrefix), subDir) THEN <<>>
    ELSE TrimPrefix(TrimPrefix(TrimPrefix(name, rootPrefix), subDir), <<"/">>)

\* The path below the target directory at which extractGitHubZip writes the
\* entry called name; <<>> when it skips the entry.
relativePathOf(name, rootPrefix, subDir) ==
    IF subDir = <<>> THEN TrimPrefix(name, rootPrefix)
    ELSE IF ~HasPrefix(TrimPrefix(name, rootPrefix), subDir \o <<"/">>) THEN <<>>
    ELSE TrimPrefix(TrimPrefix(name, rootPrefix), subDir \o <<"/">>)

\* extractGitHubZip from entry i on; n files have been written.
RECURSIVE extractGitHubZipFrom(_, _, _, _, _, _, _, _)
RECURSIVE extractGitHubZipAt(_, _, _, _, _, _, _, _, _)
RECURSIVE extractGitHubZipNext(_, _, _, _, _, _, _, _)
extractGitHubZipFrom(f, arch, i, targetDir, subDir, rootPrefix, failAt, n) ==
    IF i > Len(arch) THEN [fs |-> f, err |-> ""]
    ELSE IF IsDirEntry(arch[i])
    THEN extractGitHubZipFrom(f, arch, i + 1, targetDir, subDir, rootPrefix, failAt, n)
    ELSE extractGitHubZipAt(f, arch, i, targetDir, subDir, rootPrefix, failAt, n,
                            relativePathOf(arch[i], rootPrefix, subDir))

extractGitHubZipAt(f, arch, i, targetDir, subDir, rootPrefix, failAt, n, relativePath) ==
    IF relativePath = <<>>
    THEN extractGitHubZipFrom(f, arch, i + 1, targetDir, subDir, rootPrefix, failAt, n)
    ELSE extractGitHubZipNext(
             WriteEntry(f, Abs(Join(targetDir, relativePath)), n + 1 = failAt),
             arch, i, targetDir, subDir, rootPrefix, failAt, n)

extractGitHubZipNext(w, arch, i, targetDir, subDir, rootPrefix, failAt, n) ==
    IF w.err # "" THEN w
    ELSE extractGitHubZipFrom(w.fs, arch, i + 1, targetDir, subDir, rootPrefix, failAt, n + 1)

extractGitHubZip(f, e, targetDir, subDir) ==
    IF ~e.zipOk THEN [fs |-> f, err |-> "zip"]
    ELSE extractGitHubZipFrom(f, e.arch, 1, targetDir, subDir, rootPrefixFrom(e.arch),
                              e.failAt, 0)

\* The URL with the protocol, "git@" and ".git" stripped and the SSH colon
\* replaced.
githubStripped(githubURL) ==
    TrimSuffix(TrimPrefix(TrimPrefix(TrimPrefix(githubURL, <<"https", "://">>),
                                     <<"http", "://">>), <<"git@">>), <<".git">>)

githubNormal(u) ==
    IF HasPrefix(u, <<"github.com", ":">>)
    THEN <<"github.com", "/">> \o SubSeq(u, 3, Len(u)) ELSE u

\* The archive URL for owner parts[1], repository parts[2] and a version.
githubArchiveURL(parts, version) ==
    IF HasPrefix(version, <<"v">>)
    THEN <<"https://", "github.com", "/">> \o parts[1] \o <<"/">> \o parts[2]
         \o <<"/", "archive", "/", "refs", "/", "tags", "/">> \o version \o <<".zip">>
    ELSE <<"https://", "github.com", "/">> \o parts[1] \o <<"/">> \o parts[2]
         \o <<"/", "archive", "/", "refs", "/", "heads", "/">>
         \o TrimPrefix(version, <<"v">>) \o <<".zip">>

githubParts(u, parts, branch) ==
    IF ~HasPrefix(u, <<"github.com", "/">>)
    THEN [err |-> "invalid GitHub URL", subDir |-> <<>>, url |-> <<>>]
    ELSE IF Len(parts) < 2
    THEN [err |-> "invalid GitHub source format", subDir |-> <<>>, url |-> <<>>]
    ELSE [err |-> "",
          subDir |-> IF Len(parts) > 2
                     THEN JoinParts(SubSeq(parts, 3, Len(parts)), "/") ELSE <<>>,
          url |-> githubArchiveURL(parts, IF branch = <<>> THEN <<"main">> ELSE branch)]

\* The token "://" written out, for what splits at "/".
RECURSIVE Slashes(_)
Slashes(s) ==
    IF s = <<>> THEN <<>>
    ELSE (IF Head(s) = "://" THEN <<":", "/", "/">> ELSE <<Head(s)>>) \o Slashes(Tail(s))

githubSplit(u, branch) ==
    githubParts(u, Split(Slashes(TrimPrefix(u, <<"github.com", "/">>)), "/"), branch)

\* The subdirectory downloadAndExtractGithub reads from the URL, and the
\* archive URL it builds for the version.
githubTarget(githubURL, branch) == githubSplit(githubNormal(githubStripped(githubURL)), branch)

githubDownloaded(f, d, subDir, e) ==
    IF d.err # "" THEN d
    ELSE extracted(d.st, extractGitHubZip(d.st.fs, e, f.Dest, subDir))

githubTargeted(f, st, t, e) ==
    IF t.err # "" THEN [st |-> st, err |-> t.err]
    ELSE githubDownloaded(f, download(st, t.url, e), t.subDir, e)

downloadAndExtractGithub(f, st, githubURL, branch, e) ==
    githubTargeted(f, st, githubTarget(githubURL, branch), e)

githubMarked(m) ==
    IF m.err # "" THEN [st |-> m.st, err |-> "failed to mark as fetched"]
    ELSE [st |-> m.st, err |-> ""]

\* githubFetch after downloadAndExtractGithub returned x.
githubFetched(f, x, e) ==
    IF x.err # "" THEN [st |-> x.st, err |-> "failed to fetch from GitHub"]
    ELSE githubMarked(markAsFetched(f, x.st, e))

\* isFetched(f.Dest) only prints a line here: the fetch goes on.
githubFetch(f, st, e) ==
    IF f.Source = <<>> THEN [st |-> st, err |-> "github source URL is required"]
    ELSE githubFetched(f, downloadAndExtractGithub(
                              f, st, <<"github.com", "/">> \o f.Source,
                              IF f.Version = <<>> THEN <<"main">> ELSE f.Version, e), e)

(***************************************************************************)
(* the registry                                                            *)
(***************************************************************************)
\* extractZipArchive from entry i on; n files have been written. The
\* directory of every entry is made, a directory entry's too.
dirEntryMade(md) == [fs |-> md.fs, err |-> IF md.ok THEN "" ELSE "mkdir"]

RECURSIVE extractZipArchiveFrom(_, _, _, _, _, _)
RECURSIVE extractZipArchiveNext(_, _, _, _, _, _)
extractZipArchiveFrom(f, arch, i, outputDir, failAt, n) ==
    IF i > Len(arch) THEN [fs |-> f, err |-> ""]
    ELSE IF IsDirEntry(arch[i])
    THEN extractZipArchiveNext(dirEntryMade(MkdirAll(f, Dir(Abs(Join(outputDir, arch[i]))))),
                               arch, i, outputDir, failAt, n)
    ELSE extractZipArchiveNext(WriteEntry(f, Abs(Join(outputDir, arch[i])), n + 1 = failAt),
                               arch, i, outputDir, failAt, n + 1)

extractZipArchiveNext(w, arch, i, outputDir, failAt, n) ==
    IF w.err # "" THEN w
    ELSE extractZipArchiveFrom(w.fs, arch, i + 1, outputDir, failAt, n)

unzipped(st, x) == [st |-> [st EXCEPT !.fs = x.fs], err |-> x.err]

pulled(st, md, outputDir, e) ==
    IF ~md.ok THEN [st |-> st, err |-> "failed to create output directory"]
    ELSE IF e.dl # "ok"
    THEN [st |-> [st EXCEPT !.fs = md.fs], err |-> "failed to read response"]
    ELSE IF ~e.zipOk
    THEN [st |-> [st EXCEPT !.fs = md.fs], err |-> "failed to create zip reader"]
    ELSE unzipped(st, extractZipArchiveFrom(md.fs, e.arch, 1, outputDir, e.failAt, 0))

registryURL(packageName, version) ==
    <<"registry", "/", "api", "/", "packages", "/">> \o packageName
    \o <<"/", "versions", "/">> \o version \o <<"/", "files">>

\* client.PullVersion: one GET to the registry, the output directory is
\* created, and the zip body is written below it from memory.
PullVersion(packageName, version, outputDir, st, e) ==
    IF e.dl = "get"
    THEN [st |-> [st EXCEPT !.reqs = Append(@, registryURL(packageName, version))],
          err |-> "request failed"]
    ELSE IF e.dl = "status"
    THEN [st |-> [st EXCEPT !.reqs = Append(@, registryURL(packageName, version))],
          err |-> "pull failed"]
    ELSE pulled([st EXCEPT !.reqs = Append(@, registryURL(packageName, version))],
                MkdirAll(st.fs, Abs(outputDir)), outputDir, e)

protodexFetch(f, st, e) == PullVersion(f.Source, f.Version, f.Dest, st, e)

Fetch(f, st, e) ==
    IF f.SourceType = SourceLocal THEN localFetch(f, st)
    ELSE IF f.SourceType = SourceGitHub THEN githubFetch(f, st, e)
    ELSE IF f.SourceType = SourceProtodex THEN protodexFetch(f, st, e)
    ELSE IF f.SourceType = SourceHTTP THEN urlFetch(f, st, e)
    ELSE IF f.SourceType = SourceGoogleWellKnown THEN urlFetch(f, st, e)
    ELSE [st |-> st, err |-> "unsupported source type"]

(***************************************************************************)
(* the source parser                                                       *)
(* ParseSource returns [err, Type, Source, Version, Raw]; with an error    *)
(* the code returns no SourceInfo, and the other fields are empty.         *)
(***************************************************************************)
\* isLocalPath, were an "@" in the input not looked for.
isLocalPath_atIgnored(input) ==
    \/ HasPrefix(input, <<".", "/">>)
    \/ HasPrefix(input, <<"..", "/">>)
    \/ HasPrefix(input, <<"/">>)
    \/ ~Contains(input, "://")

isLocalPath(input) ==
    \/ HasPrefix(input, <<".", "/">>)
    \/ HasPrefix(input, <<"..", "/">>)
    \/ HasPrefix(input, <<"/">>)
    \/ (~Contains(input, "://") /\ ~Contains(input, "@"))

\* getDefaultVersion, were "latest" the default of every remote type.
getDefaultVersion_latestForAll(sourceType) ==
    IF sourceType = SourceLocal THEN <<>> ELSE <<"latest">>

getDefaultVersion(sourceType) ==
    IF sourceType = SourceGitHub THEN <<"main">>
    ELSE IF sourceType = SourceProtodex THEN <<"latest">>
    ELSE <<>>

NoSource(err) == [err |-> err, Type |-> "", Source |-> <<>>, Version |-> <<>>, Raw |-> <<>>]

\* The type the scheme table of ParseSource gives, "" for any other scheme.
schemeType(scheme) ==
    IF scheme \in {"http", "https"} THEN SourceHTTP
    ELSE IF scheme = "github" THEN SourceGitHub
    ELSE IF scheme = "google-well-known" THEN SourceGoogleWellKnown
    ELSE IF scheme = "protodex" THEN SourceProtodex
    ELSE IF scheme = "file" THEN SourceLocal
    ELSE ""

\* ParseSource once the input is split at its last "@" and the part before
\* it is parsed as a URL.
sourceParsed(input, parsedURL, version) ==
    IF ~parsedURL.ok THEN NoSource("invalid source format")
    ELSE IF parsedURL.Scheme = "" THEN NoSource("missing scheme in source")
    ELSE IF schemeType(ToLower(parsedURL.Scheme)) = "" THEN NoSource("unsupported source type")
    ELSE [err |-> "", Type |-> schemeType(ToLower(parsedURL.Scheme)),
          Source |-> parsedURL.Host \o parsedURL.Path,
          Version |-> IF version # <<>> THEN version
                      ELSE getDefaultVersion(schemeType(ToLower(parsedURL.Scheme))),
          Raw |-> input]

ParseSource(input) ==
    IF input = <<>> THEN NoSource("empty source")
    ELSE IF HasPrefix(input, <<"file", "://">>)
    THEN [err |-> "", Type |-> SourceLocal, Source |-> TrimPrefix(input, <<"file", "://">>),
          Version |-> <<>>, Raw |-> input]
    ELSE IF isLocalPath(input)
    THEN [err |-> "", Type |-> SourceLocal, Source |-> input, Version |-> <<>>, Raw |-> input]
    ELSE IF LastIndex(input, "@") # 0
    THEN sourceParsed(input, urlParse(SubSeq(input, 1, LastIndex(input, "@") - 1)),
                      SubSeq(input, LastIndex(input, "@") + 1, Len(input)))
    ELSE sourceParsed(input, urlParse(input), <<>>)

\* NewFetcherFromURL: [err, f]
NewFetcherFromURL(sourceURL, dest) ==
    IF ParseSource(sourceURL).err # ""
    THEN [err |-> "failed to parse source URL", f |-> NewFetcher("", <<>>, <<>>, <<>>)]
    ELSE [err |-> "",
          f |-> NewFetcher(ParseSource(sourceURL).Type, ParseSource(sourceURL).Source,
                           ParseSource(sourceURL).Version, dest)]

(***************************************************************************)
(* dependency resolver                                                     *)
(***************************************************************************)
\* filepath.Join(config.GetProtodexPath(), "deps")
outputPath == <<"/", "h", "/", "deps">>

googleProtocVersion == <<"v", "32.0">>

NewResolver(st) ==
    IF MkdirAll(st.fs, Abs(outputPath)).ok
    THEN [st |-> [st EXCEPT !.fs = MkdirAll(st.fs, Abs(outputPath)).fs], err |-> ""]
    ELSE [st |-> st, err |-> "failed to create cache directory"]

\* isCached, were the ".protodex-complete" marker asked for.
isCached_markerNeeded(f, path) ==
    IF ~Exists(f, Abs(path)) THEN FALSE
    ELSE IF ~IsDir(f, Abs(path)) THEN FALSE
    ELSE ".protodex-complete" \in ReadDir(f, Abs(path))

isCached(f, path) ==
    IF ~Exists(f, Abs(path)) THEN FALSE
    ELSE IF ~IsDir(f, Abs(path)) THEN FALSE
    ELSE ReadDir(f, Abs(path)) # {}

\* extractIncludes from entry i on; n files have been written.
RECURSIVE extractIncludesFrom(_, _, _, _, _, _)
RECURSIVE extractIncludesNext(_, _, _, _, _, _)
extractIncludesFrom(f, arch, i, targetDir, failAt, n) ==
    IF i > Len(arch) THEN [fs |-> f, err |-> ""]
    ELSE IF ~HasPrefix(arch[i], <<"include", "/">>) \/ IsDirEntry(arch[i])
    THEN extractIncludesFrom(f, arch, i + 1, targetDir, failAt, n)
    ELSE extractIncludesNext(
            WriteEntry(f, Abs(Join(targetDir,
                                   TrimPrefix(TrimPrefix(arch[i], <<"include", "/">>),
                                              <<"google", "/", "protobuf", "/">>))),
                       n + 1 = failAt),
            arch, i, targetDir, failAt, n)

extractIncludesNext(w, arch, i, targetDir, failAt, n) ==
    IF w.err # "" THEN w
    ELSE extractIncludesFrom(w.fs, arch, i + 1, targetDir, failAt, n + 1)

extractIncludes(f, e, targetDir) ==
    IF ~e.zipOk THEN [fs |-> f, err |-> "zip"]
    ELSE extractIncludesFrom(f, e.arch, 1, targetDir, e.failAt, 0)

googleURL(version) ==
    <<"https://", "github.com", "/", "protocolbuffers", "/", "protobuf", "/", "releases",
      "/", "download", "/">> \o version \o <<"/", "protoc-">> \o TrimPrefix(version, <<"v">>)
    \o <<"-linux-x86_64.zip">>

\* os.WriteFile of the ".protodex-complete" marker, after extractIncludes
\* left x.
includesExtracted(st, x, c, e) ==
    IF x.err # "" THEN [st |-> [st EXCEPT !.fs = x.fs], err |-> x.err]
    ELSE IF ~e.markerOk \/ ~c.ok THEN [st |-> [st EXCEPT !.fs = x.fs], err |-> "write marker"]
    ELSE [st |-> [st EXCEPT !.fs = c.fs], err |-> ""]

includesDownloaded(st, x, targetDir, e) ==
    includesExtracted(st, x, Create(x.fs, Abs(Join(targetDir, <<".protodex-complete">>))), e)

\* The temporary file is removed by the defer that follows os.CreateTemp,
\* and the error of tempFile.Close() is not looked at.
resolveGoogleWellKnownProtos(dep, st, e) ==
    IF isCached(st.fs, Join(outputPath, dep.Name)) THEN [st |-> st, err |-> ""]
    ELSE IF e.dl \in {"get", "status"}
    THEN [st |-> [st EXCEPT !.reqs = Append(@, googleURL(IF dep.Version = <<>>
                                                         THEN googleProtocVersion
                                                         ELSE dep.Version))],
          err |-> "failed to download includes"]
    ELSE IF e.dl \in {"mktemp", "copy"}
    THEN [st |-> [st EXCEPT !.reqs = Append(@, googleURL(IF dep.Version = <<>>
                                                         THEN googleProtocVersion
                                                         ELSE dep.Version))],
          err |-> e.dl]
    ELSE includesDownloaded(
            [st EXCEPT !.reqs = Append(@, googleURL(IF dep.Version = <<>>
                                                    THEN googleProtocVersion
                                                    ELSE dep.Version))],
            extractIncludes(st.fs, e, Join(outputPath, dep.Name)),
            Join(outputPath, dep.Name), e)

_resolveDependency(dep, st, e) ==
    Fetch(NewFetcher(dep.Type, dep.Source, dep.Version, Join(outputPath, dep.Name)), st, e)

resolveDependency(dep, st, e) ==
    IF dep.Type = SourceGoogleWellKnown THEN resolveGoogleWellKnownProtos(dep, st, e)
    ELSE _resolveDependency(dep, st, e)

\* What the loop of ResolveDependencies did for one declaration: its error
\* and the disk it left.
Step(dep, r) == [Name |-> dep.Name, err |-> r.err, fs |-> r.st.fs]

\* ResolveDependencies from declaration i on; envs[i] is the environment of
\* the i-th declaration, steps what the loop did so far.
RECURSIVE resolveFrom(_, _, _, _, _)
RECURSIVE resolveNext(_, _, _, _, _)
RECURSIVE resolveNext_keepGoing(_, _, _, _, _)
resolveFrom(deps, i, st, envs, steps) ==
    IF i > Len(deps) THEN [st |-> st, err |-> "", name |-> <<>>, steps |-> steps]
    ELSE resolveNext(deps, i, resolveDependency(deps[i], st, envs[i]), envs, steps)

\* resolveNext, were the loop to go on after a failure and report it at the end.
resolveNext_keepGoing(deps, i, r, envs, steps) ==
    IF r.err # "" /\ i = Len(deps)
    THEN [st |-> r.st, err |-> "failed to resolve dependency", name |-> deps[i].Name,
          steps |-> Append(steps, Step(deps[i], r))]
    ELSE resolveFrom(deps, i + 1, r.st, envs, Append(steps, Step(deps[i], r)))

resolveNext(deps, i, r, envs, steps) ==
    IF r.err # ""
    THEN [st |-> r.st, err |-> "failed to resolve dependency", name |-> deps[i].Name,
          steps |-> Append(steps, Step(deps[i], r))]
    ELSE resolveFrom(deps, i + 1, r.st, envs, Append(steps, Step(deps[i], r)))

ResolveDependencies(deps, st, envs) == resolveFrom(deps, 1, st, envs, <<>>)

\* os.RemoveAll(p): p and everything below it, no link followed.
RemoveAll(f, p) ==
    [q \in {x \in DOMAIN f : ~(Len(x) >= Len(p) /\ SubSeq(x, 1, Len(p)) = p)} |-> f[q]]

\* Resolver.Clear; removeOk: os.RemoveAll returns no error.
Clear(f, removeOk) ==
    IF removeOk THEN [fs |-> RemoveAll(f, Abs(outputPath)), err |-> ""]
    ELSE [fs |-> f, err |-> "remove"]

\* The entries of directory r that are directories themselves: DirEntry.IsDir
\* looks at the entry, so a symbolic link is none, wherever it points.
dirNamesIn(f, r) == {n \in namesIn(f, r) : f[Append(r, n)].kind = "dir"}

\* ListCached, were every entry of the cache root listed.
ListCached_everyEntry(f) ==
    IF ~Exists(f, Abs(outputPath)) THEN [names |-> {}, err |-> ""]
    ELSE IF ~IsDir(f, Abs(outputPath)) THEN [names |-> {}, err |-> "not a directory"]
    ELSE [names |-> ReadDir(f, Abs(outputPath)), err |-> ""]

\* Resolver.ListCached: [names, err], names the set of the names returned.
ListCached(f) ==
    IF ~Exists(f, Abs(outputPath)) THEN [names |-> {}, err |-> ""]
    ELSE IF ~IsDir(f, Abs(outputPath)) THEN [names |-> {}, err |-> "not a directory"]
    ELSE [names |-> dirNamesIn(f, realpath(f, Abs(outputPath))), err |-> ""]

(***************************************************************************)
(* protoc: plugins and the argument vector                                 *)
(* An argument is the sequence of the pieces fmt.Sprintf puts together. A  *)
(* map is the sequence of its entries [k, v] in key order; ranging over it *)
(* visits them in an order of Go's choosing (rev: the other order of a map *)
(* of at most two entries). An operation takes the search path it runs     *)
(* with (the executables exec.LookPath finds) and returns the one it       *)
(* leaves.                                                                 *)
(***************************************************************************)
Reverse(m) == [i \in 1..Len(m) |-> m[Len(m) + 1 - i]]
Range(m, rev) == IF rev THEN Reverse(m) ELSE m

\* fmt.Sprintf("--%s_out=%s", name, dir)
OutFlag(name, dir) == <<"--", name, "_out", "=">> \o dir

\* fmt.Sprintf("--%s=%s", k, v) for the entries of a map, in ranging order
OptionFlags(m) == [i \in 1..Len(m) |-> <<"--", m[i].k, "=", m[i].v>>]

\* fmt.Sprintf("--proto_path=%s", path)
ProtoPathFlag(path) == <<"--", "proto_path", "=">> \o path

\* The generator executable of the languages of ensureLanguagePlugins, ""
\* for a language with built-in support. (The language names of the model
\* are in lower case, which strings.ToLower leaves as they are.)
languagePlugin(language) ==
    IF language = "go" THEN "protoc-gen-go"
    ELSE IF language = "dart" THEN "protoc-gen-dart"
    ELSE IF language = "rust" THEN "protoc-gen-rs"
    ELSE IF language = "swift" THEN "protoc-gen-swift"
    ELSE IF language = "ts" THEN "protoc-gen-ts"
    ELSE IF language = "js" THEN "protoc-gen-es"
    ELSE ""

\* install: what the install command does ("fails": it exits with an error,
\* "ok": the executable is on the search path afterwards, "elsewhere": it
\* exits with success and the executable is not on the search path).
installPlugin(name, path, install) ==
    IF install = "fails" THEN [path |-> path, err |-> "failed to run install command"]
    ELSE IF install = "ok" THEN [path |-> path \cup {name}, err |-> ""]
    ELSE [path |-> path, err |-> ""]

ensurePlugin(name, path, install) ==
    IF name \in path THEN [path |-> path, err |-> ""]
    ELSE installPlugin(name, path, install)

ensureLanguagePlugins(language, path, install) ==
    IF languagePlugin(language) = "" THEN [path |-> path, err |-> ""]
    ELSE ensurePlugin(languagePlugin(language), path, install)

ensureCustomPlugin(plugin, path) ==
    IF plugin.Command \in path THEN "" ELSE "plugin command not found in PATH"

\* The loop of Process from plugin i on; args is the vector built so far.
RECURSIVE processFrom(_, _, _, _, _, _)
RECURSIVE processFrom_keepMissing(_, _, _, _, _, _)
\* processFrom, were a plugin that is not found to keep its flags.
processFrom_keepMissing(customPlugins, i, outputDir, path, rev, args) ==
    IF i > Len(customPlugins) THEN [path |-> path, err |-> "", name |-> "", args |-> args]
    ELSE processFrom(customPlugins, i + 1, outputDir, path, rev,
                     args \o <<OutFlag(customPlugins[i].Name,
                                       IF customPlugins[i].OutputDir = <<>> THEN outputDir
                                       ELSE customPlugins[i].OutputDir)>>
                          \o OptionFlags(Range(customPlugins[i].Options, rev)))

processFrom(customPlugins, i, outputDir, path, rev, args) ==
    IF i > Len(customPlugins) THEN [path |-> path, err |-> "", name |-> "", args |-> args]
    ELSE IF ensureCustomPlugin(customPlugins[i], path) # ""
    THEN (IF customPlugins[i].Required
          THEN [path |-> path, err |-> "failed to ensure custom plugin",
                name |-> customPlugins[i].Name, args |-> <<>>]
          ELSE processFrom(customPlugins, i + 1, outputDir, path, rev, args))
    ELSE processFrom(customPlugins, i + 1, outputDir, path, rev,
                     args \o <<OutFlag(customPlugins[i].Name,
                                       IF customPlugins[i].OutputDir = <<>> THEN outputDir
                                       ELSE customPlugins[i].OutputDir)>>
                          \o OptionFlags(Range(customPlugins[i].Options, rev)))

languageEnsured(language, outputDir, customPlugins, x, rev) ==
    IF x.err # ""
    THEN [path |-> x.path, err |-> "failed to ensure language plugins", name |-> language,
          args |-> <<>>]
    ELSE processFrom(customPlugins, 1, outputDir, x.path, rev, <<OutFlag(language, outputDir)>>)

\* PluginManager.Process: [path, err, name, args], args <<>> with an error.
Process(language, outputDir, customPlugins, path, e) ==
    languageEnsured(language, outputDir, customPlugins,
                    ensureLanguagePlugins(language, path, e.install), e.rev)

\* getCurrentPlatform for runtime.GOOS and runtime.GOARCH, <<>> for ""
getCurrentPlatform(goos, goarch) ==
    IF goarch \notin {"amd64", "arm64"} THEN <<>>
    ELSE IF goos = "linux"
    THEN <<"linux-", IF goarch = "amd64" THEN "x86_64" ELSE "aarch_64">>
    ELSE IF goos = "darwin"
    THEN <<"osx-", IF goarch = "amd64" THEN "x86_64" ELSE "aarch_64">>
    ELSE IF goos = "windows" THEN (IF goarch = "amd64" THEN <<"win64">> ELSE <<>>)
    ELSE <<>>

getBinaryName(platform) ==
    IF platform = <<"linux-", "x86_64">> THEN "protoc-linux-amd64"
    ELSE IF platform = <<"linux-", "aarch_64">> THEN "protoc-linux-arm64"
    ELSE IF platform = <<"osx-", "x86_64">> THEN "protoc-darwin-amd64"
    ELSE IF platform = <<"osx-", "aarch_64">> THEN "protoc-darwin-arm64"
    ELSE IF platform = <<"win64">> THEN "protoc-windows-amd64.exe"
    ELSE ""

\* The release archive downloadAndExtract of the compiler asks for.
protocURL(platform, version) ==
    <<"https://", "github.com", "/", "protocolbuffers", "/", "protobuf", "/", "releases", "/",
      "download", "/", "v">> \o version \o <<"/", "protoc-">> \o version \o <<"-">>
    \o platform \o <<".zip">>

\* What downloadProtoc has done by the time it returns, in order: the
\* directory of the binary made, the archive requested, the binary created
\* at the configured path, the binary marked executable.
protocEffects(ex, platform, n) ==
    SubSeq(<<<<"mkdir">>, protocURL(platform, ex.version), <<"create">>, <<"chmod">>>>, 1, n)

\* downloadProtoc; d.outcome names the step that fails: "mkdir" (os.MkdirAll),
\* "get", "status" (http.Get), "mktemp", "copy" (the temporary file), "zip",
\* "noprotoc" (the archive cannot be read or holds no bin/protoc), "create",
\* "write" (the binary at the configured path), "chmod"; with "ok" and
\* "lost" every step succeeds, and with "lost" exec.LookPath does not find
\* the binary afterwards. [path, err, effects]
downloadProtoc(ex, path, d) ==
    IF getCurrentPlatform(d.goos, d.goarch) = <<>>
    THEN [path |-> path, err |-> "unsupported platform", effects |-> <<>>]
    ELSE IF getBinaryName(getCurrentPlatform(d.goos, d.goarch)) = ""
    THEN [path |-> path, err |-> "failed to get binary name for platform", effects |-> <<>>]
    ELSE IF d.outcome = "mkdir"
    THEN [path |-> path, err |-> "failed to create directory", effects |-> <<>>]
    ELSE IF d.outcome \in {"get", "status", "mktemp", "copy", "zip", "noprotoc", "create"}
    THEN [path |-> path, err |-> "failed to download protoc",
          effects |-> protocEffects(ex, getCurrentPlatform(d.goos, d.goarch), 2)]
    ELSE IF d.outcome = "write"
    THEN [path |-> path, err |-> "failed to download protoc",
          effects |-> protocEffects(ex, getCurrentPlatform(d.goos, d.goarch), 3)]
    ELSE IF d.outcome = "chmod"
    THEN [path |-> path, err |-> "failed to make protoc executable",
          effects |-> protocEffects(ex, getCurrentPlatform(d.goos, d.goarch), 3)]
    ELSE [path |-> IF d.outcome = "lost" THEN path ELSE path \cup {ex.protocPath}, err |-> "",
          effects |-> protocEffects(ex, getCurrentPlatform(d.goos, d.goarch), 4)]

\* protocDownloaded, were the binary not looked up again after the download.
protocDownloaded_notVerified(ex, d) ==
    IF d.err # ""
    THEN [path |-> d.path, err |-> "protoc not found and download failed", cause |-> d.err,
          effects |-> d.effects]
    ELSE [path |-> d.path, err |-> "", cause |-> "", effects |-> d.effects]

\* ensureProtoc once downloadProtoc returned d: the binary is looked up again.
protocDownloaded(ex, d) ==
    IF d.err # ""
    THEN [path |-> d.path, err |-> "protoc not found and download failed", cause |-> d.err,
          effects |-> d.effects]
    ELSE IF ex.protocPath \notin d.path
    THEN [path |-> d.path, err |-> "protoc still not executable after download", cause |-> "",
          effects |-> d.effects]
    ELSE [path |-> d.path, err |-> "", cause |-> "", effects |-> d.effects]

\* Executor.ensureProtoc: [path, err, cause, effects], cause the error of
\* downloadProtoc that err wraps.
ensureProtoc(ex, path, e) ==
    IF ex.protocPath = ""
    THEN [path |-> path, err |-> "protoc binary path is not set", cause |-> "", effects |-> <<>>]
    ELSE IF ex.protocPath \in path
    THEN [path |-> path, err |-> "", cause |-> "", effects |-> <<>>]
    ELSE protocDownloaded(ex, downloadProtoc(ex, path, e.protoc))

\* What a call that ends before the compiler is started returns.
NotStarted(path, err, process) ==
    [path |-> path, err |-> err, process |-> process, started |-> FALSE, exited |-> FALSE,
     argv |-> <<>>]

NoProcess == [path |-> {}, err |-> "", name |-> "", args |-> <<>>]

\* Executor.Run once ensureProtoc returned x: the compiler is started with
\* the cache path, the arguments and the files; cmd.Run returns when the
\* process has exited, with how it ended (e.exit).
protocRun(ex, protoFiles, args, x, process, e) ==
    IF x.err # "" THEN NotStarted(x.path, x.err, process)
    ELSE [path |-> x.path, err |-> e.exit, process |-> process, started |-> TRUE,
          exited |-> TRUE,
          argv |-> (IF ex.depsPath # <<>> THEN <<ProtoPathFlag(ex.depsPath)>> ELSE <<>>)
                   \o args \o protoFiles]

Run(ex, protoFiles, args, path, process, e) ==
    protocRun(ex, protoFiles, args, ensureProtoc(ex, path, e), process, e)

\* GenerateCode, were the search paths put in front as the first arguments.
processed_pathsFirst(ex, protoFiles, options, process, e) ==
    IF process.err # ""
    THEN NotStarted(process.path, "failed to process plugins", process)
    ELSE Run(ex, protoFiles,
             <<ProtoPathFlag(options.ProjectPath)>> \o process.args
             \o OptionFlags(Range(options.Options, e.rev)),
             process.path, process, e)

\* GenerateCode once Process returned.
processed(ex, protoFiles, options, process, e) ==
    IF process.err # ""
    THEN NotStarted(process.path, "failed to process plugins", process)
    ELSE Run(ex, protoFiles,
             process.args \o <<ProtoPathFlag(options.ProjectPath)>>
             \o OptionFlags(Range(options.Options, e.rev)),
             process.path, process, e)

protocEnsured(ex, language, protoFiles, outputDir, options, x, e) ==
    IF x.err # "" THEN NotStarted(x.path, x.err, NoProcess)
    ELSE processed(ex, protoFiles, options,
                   Process(language, outputDir, options.CustomPlugins, x.path, e), e)

\* Executor.GenerateCode; options = [ProjectPath, Options, CustomPlugins]
GenerateCode(ex, language, protoFiles, outputDir, options, path, e) ==
    protocEnsured(ex, language, protoFiles, outputDir, options, ensureProtoc(ex, path, e), e)

(***************************************************************************)
(* manager: the project file and Generate                                  *)
(***************************************************************************)
\* ProjectConfig.GetLanguage: the first language of that name; found is
\* FALSE for the nil it returns when there is none.
NoLanguage == [Name |-> "", OutputDir |-> <<>>, Options |-> <<>>, Plugins |-> <<>>]

GetLanguage(pc, lang) ==
    IF \A i \in 1..Len(pc.Languages) : pc.Languages[i].Name # lang
    THEN [found |-> FALSE, l |-> NoLanguage]
    ELSE [found |-> TRUE,
          l |-> pc.Languages[CHOOSE i \in 1..Len(pc.Languages) :
                                /\ pc.Languages[i].Name = lang
                                /\ \A j \in 1..(i - 1) : pc.Languages[j].Name # lang]]

\* GetAllPlugins, were the plugins of the language put before the global ones.
GetAllPlugins_languageFirst(pc, lang) ==
    (IF GetLanguage(pc, lang).found THEN GetLanguage(pc, lang).l.Plugins ELSE <<>>)
    \o pc.Plugins

GetAllPlugins(pc, lang) ==
    pc.Plugins \o (IF GetLanguage(pc, lang).found THEN GetLanguage(pc, lang).l.Plugins
                   ELSE <<>>)

\* The copy of the language that Generate changes with what the caller sets.
overridden(l, options) ==
    [Name |-> l.Name,
     OutputDir |-> IF options.OutputDir # <<>> THEN options.OutputDir ELSE l.OutputDir,
     Plugins |-> IF Len(options.Plugins) > 0 THEN options.Plugins ELSE l.Plugins,
     Options |-> IF Len(options.Options) > 0 THEN options.Options ELSE l.Options]

\* What Generate returns: the disk and the search path it leaves, its
\* error, whether GenerateCode was called and with which arguments (call),
\* and what GenerateCode did (r).
Generated(f, r, err, invoked, call) == [fs |-> f, r |-> r, err |-> err, invoked |-> invoked, call |-> call]

NoCall == [language |-> "", outputDir |-> <<>>,
           options |-> [ProjectPath |-> <<>>, Options |-> <<>>, CustomPlugins |-> <<>>]]

codeGenerated(f, r, call) ==
    Generated(f, r, IF r.err # "" THEN "failed to generate code" ELSE "", TRUE, call)

outputDirMade(m, protoFiles, opt, md, path, e) ==
    IF ~md.ok
    THEN Generated(md.fs, NotStarted(path, "", NoProcess), "failed to create output directory",
                   FALSE, NoCall)
    ELSE codeGenerated(
            md.fs,
            GenerateCode(m.executor, opt.Name, protoFiles, opt.OutputDir,
                         [ProjectPath |-> m.projectPath, Options |-> opt.Options,
                          CustomPlugins |-> GetAllPlugins(m.config, opt.Name)],
                         path, e),
            [language |-> opt.Name, outputDir |-> opt.OutputDir,
             options |-> [ProjectPath |-> m.projectPath, Options |-> opt.Options,
                          CustomPlugins |-> GetAllPlugins(m.config, opt.Name)]])

\* languageChosen, were the name of the language not looked at.
languageChosen_nameUnchecked(m, protoFiles, opt, f, path, e) ==
    IF opt.OutputDir = <<>>
    THEN Generated(f, NotStarted(path, "", NoProcess), "output directory is required", FALSE, NoCall)
    ELSE outputDirMade(m, protoFiles, opt, MkdirAll(f, Abs(opt.OutputDir)), path, e)

languageChosen(m, protoFiles, opt, f, path, e) ==
    IF opt.OutputDir = <<>>
    THEN Generated(f, NotStarted(path, "", NoProcess), "output directory is required", FALSE, NoCall)
    ELSE IF opt.Name = ""
    THEN Generated(f, NotStarted(path, "", NoProcess), "language name is required", FALSE, NoCall)
    ELSE outputDirMade(m, protoFiles, opt, MkdirAll(f, Abs(opt.OutputDir)), path, e)

\* Manager.Generate; m = [projectPath, config, executor], options the
\* LanguageConfig of the caller.
Generate(m, protoFiles, options, f, path, e) ==
    IF Len(protoFiles) = 0
    THEN Generated(f, NotStarted(path, "", NoProcess), "no proto files to generate", FALSE, NoCall)
    ELSE IF ~GetLanguage(m.config, options.Name).found
    THEN Generated(f, NotStarted(path, "", NoProcess), "no language configured", FALSE, NoCall)
    ELSE languageChosen(m, protoFiles, overridden(GetLanguage(m.config, options.Name).l, options),
                        f, path, e)

(***************************************************************************)
(* The fetcher on its own: NewFetcher and Fetch, called with sources and   *)
(* destinations of every kind, against a network and a disk that may fail. *)
(***************************************************************************)
\* /w/s is a directory of proto files, /w/e an empty directory; /h/deps is
\* the cache root that NewResolver created; nothing else exists.
InitFS ==
    [p \in {<<>>, <<"w">>, <<"w", "s">>, <<"w", "s", "x.proto">>, <<"w", "e">>,
            <<"h">>, <<"h", "deps">>}
        |-> IF p = <<"w", "s", "x.proto">> THEN FileNode ELSE DirNode]

CacheA == <<"/", "h", "/", "deps", "/", "a">>
CacheB == <<"/", "h", "/", "deps", "/", "b">>
SrcAbs == <<"/", "w", "/", "s">>
SrcRel == <<"s">>
SrcMissing == <<"/", "w", "/", "nx">>

LocalSources == {SrcAbs, SrcRel, SrcMissing, CacheA}
LocalDests == {CacheA, CacheB, SrcAbs, <<>>}
RemoteDests == {CacheA, CacheB}

HttpsURL == <<"https", "://", "host", "/", "p.zip">>
FtpURL == <<"ftp", "://", "host", "/", "p.zip">>
NoSchemeURL == <<"host", "/", "p.zip">>
BadURL == <<"://", "invalid">>
HttpSources == {HttpsURL, FtpURL, NoSchemeURL, BadURL}

GithubSources == {<<"o", "/", "r">>, <<"o", "/", "r", "/", "proto">>, <<"o">>, <<>>}
Versions == {<<>>, <<"v", "1">>}

\* The environment of a fetch that asks nothing of the network.
NoEnv == [dl |-> "ok", zipOk |-> TRUE, arch |-> ArchEmpty, failAt |-> 0, markerOk |-> TRUE]

NoFetcher == NewFetcher("", <<>>, <<>>, <<>>)

\* The variables of the parts a specification leaves alone.
NoLast == [f |-> NoFetcher, env |-> NoEnv, err |-> "", reqs |-> <<>>,
           fsPre |-> InitFS, tmpPre |-> 0]
NoRun == [deps |-> <<>>, err |-> "", name |-> <<>>, steps |-> <<>>, reqs |-> <<>>,
          fsPre |-> InitFS, tmpPre |-> 0, again |-> FALSE]
NoConfig == [Dependencies |-> <<>>, Languages |-> <<>>, Plugins |-> <<>>]
\* A download of the compiler on linux/amd64 that ends as outcome says.
ProtocEnv(outcome) == [goos |-> "linux", goarch |-> "amd64", outcome |-> outcome]

NoGenEnv == [rev |-> FALSE, exit |-> "", install |-> "none", protoc |-> ProtocEnv("ok")]
NoBoot == [path |-> {}, err |-> "", cause |-> "", effects |-> <<>>]
NoGen == [called |-> FALSE,
          executor |-> [protocPath |-> "protoc", version |-> <<"32.0">>, depsPath |-> <<>>],
          files |-> <<>>, options |-> NoLanguage, env |-> NoGenEnv, pathPre |-> {},
          boot |-> NoBoot,
          res |-> Generated(InitFS, NotStarted({}, "", NoProcess), "", FALSE, NoCall)]
\* What Validate returns: the state it leaves, whether ResolveDependencies
\* was called and what it returned (r), and what Executor.Run did (v).
Validated(st, path, err, resolved, r, v) ==
    [st |-> st, path |-> path, err |-> err, resolved |-> resolved, r |-> r, v |-> v]

NoResolve == [st |-> [fs |-> InitFS, tmp |-> 0, reqs |-> <<>>], err |-> "", name |-> <<>>,
              steps |-> <<>>]

\* What the command returns: the state it leaves, how far it got (reached),
\* what Validate returned (x) and what Generate returned (g).
Stopped(st, path, err, reached, x) ==
    [st |-> st, path |-> path, err |-> err, reached |-> reached, x |-> x, generated |-> FALSE,
     files |-> <<>>, options |-> NoLanguage,
     g |-> Generated(InitFS, NotStarted({}, "", NoProcess), "", FALSE, NoCall)]

NotValidated == Validated([fs |-> InitFS, tmp |-> 0, reqs |-> <<>>], {}, "", FALSE, NoResolve,
                          NotStarted({}, "", NoProcess))

\* What the calls on one resolver left. op: the last call; names, err: what
\* ListCached or Clear returned; envs: the environment of the last
\* ResolveDependencies; ok: that call succeeded and no Clear followed;
\* won: some ResolveDependencies succeeded, wonEnvs its environment;
\* cleared: Clear succeeded and nothing was resolved since; partial: the
\* index of the declaration the last ResolveDependencies failed at after it
\* had written below its cache directory, else 0. afterClear, prevWon,
\* prevEnvs, prevPartial: cleared, won, wonEnvs and partial as the last
\* ResolveDependencies found them.
NoCache == [op |-> "none", names |-> {}, err |-> "", envs |-> <<>>, ok |-> FALSE,
            won |-> FALSE, wonEnvs |-> <<>>, cleared |-> FALSE, partial |-> 0,
            afterClear |-> FALSE, prevWon |-> FALSE, prevEnvs |-> <<>>, prevPartial |-> 0]

\* deps: the dependencies of the project file on disk; the rest is the last
\* AddDependency call: its arguments, what it returned, and the in-memory
\* list and the project file as it found them.
NoProject == [deps |-> <<>>, called |-> FALSE, name |-> <<>>, source |-> <<>>, err |-> "",
              depsPre |-> <<>>, savedPre |-> <<>>]

\* No concurrent invocation is under way.
NoProcs == <<>>

NoParse == [called |-> FALSE, input |-> <<>>, info |-> NoSource("")]

NoCmd == [called |-> FALSE, language |-> "", source |-> <<>>, outputDir |-> <<>>,
          envs |-> <<>>, env |-> NoGenEnv,
          res |-> Stopped([fs |-> InitFS, tmp |-> 0, reqs |-> <<>>], {}, "", "", NotValidated)]

Ran(f, e, r) ==
    /\ fs' = r.st.fs
    /\ tmp' = r.st.tmp
    /\ nops' = nops + 1
    /\ last' = [f |-> f, env |-> e, err |-> r.err, reqs |-> r.st.reqs,
                fsPre |-> fs, tmpPre |-> tmp]
    /\ UNCHANGED <<cfg, run, onPath, gen, cmd, parse, cache, project, procs>>

FetchLocal ==
    /\ nops < MaxOps
    /\ \E source \in LocalSources, dest \in LocalDests :
          LET f == NewFetcher(SourceLocal, source, <<>>, dest)
          IN  Ran(f, NoEnv, Fetch(f, [fs |-> fs, tmp |-> tmp, reqs |-> <<>>], NoEnv))

FetchURL ==
    /\ nops < MaxOps
    /\ \E type \in {SourceHTTP, SourceGoogleWellKnown}, source \in HttpSources,
          dest \in RemoteDests, e \in Env :
          LET f == NewFetcher(type, source, <<>>, dest)
          IN  Ran(f, e, Fetch(f, [fs |-> fs, tmp |-> tmp, reqs |-> <<>>], e))

FetchGitHub ==
    /\ nops < MaxOps
    /\ \E source \in GithubSources, version \in Versions, dest \in RemoteDests, e \in Env :
          LET f == NewFetcher(SourceGitHub, source, version, dest)
          IN  Ran(f, e, Fetch(f, [fs |-> fs, tmp |-> tmp, reqs |-> <<>>], e))

InitFetch ==
    /\ fs = InitFS
    /\ tmp = 0
    /\ nops = 0
    /\ last = NoLast
    /\ cfg = NoConfig
    /\ run = NoRun
    /\ onPath = {}
    /\ gen = NoGen
    /\ cmd = NoCmd
    /\ parse = NoParse
    /\ cache = NoCache
    /\ project = NoProject
    /\ procs = NoProcs

NextFetch == FetchLocal \/ FetchURL \/ FetchGitHub

SpecFetch == InitFetch /\ [][NextFetch]_vars

(***************************************************************************)
(* Properties of the fetcher, stated on the last Fetch: last.fsPre and     *)
(* last.tmpPre are the disk it started from, fs and tmp the disk it left.  *)
(***************************************************************************)
MarkerName == FetchedMarkerFile[1]

Fetched == nops > 0
FetchedURL == Fetched /\ last.f.SourceType \in {SourceHTTP, SourceGoogleWellKnown}
FetchedGitHub == Fetched /\ last.f.SourceType = SourceGitHub
FetchedLocal == Fetched /\ last.f.SourceType = SourceLocal

\* The paths of f that are a marker file.
Markers(f) == {p \in DOMAIN f : p # <<>> /\ p[Len(p)] = MarkerName}

\* The destination held at least one file and the marker before the fetch.
DestWasFetched ==
    /\ IsDir(last.fsPre, Abs(last.f.Dest))
    /\ MarkerName \in ReadDir(last.fsPre, Abs(last.f.Dest))
    /\ ReadDir(last.fsPre, Abs(last.f.Dest)) # {MarkerName}

\* The source is one the fetcher accepts: an http(s) URL, an owner/repo path.
SourceWellFormed ==
    IF last.f.SourceType = SourceGitHub THEN last.f.Source \in {<<"o", "/", "r">>, <<"o", "/", "r", "/", "proto">>}
    ELSE last.f.Source = HttpsURL

\* C1: when the destination already holds at least one file and the marker,
\* Fetch for an HTTP source and Fetch for a GitHub source each return
\* success, issue no network request and leave the destination as it was.
C1_FetchedDestIsLeftAlone ==
    (Fetched /\ last.f.SourceType \in {SourceHTTP, SourceGitHub}
        /\ SourceWellFormed /\ DestWasFetched)
    => (last.err = "" /\ last.reqs = <<>> /\ fs = last.fsPre)

\* C4: once Fetch for an HTTP, GitHub or WellKnown source has returned, with
\* success or with any error, no temporary file of that fetch is left.
C4_NoTempFileLeft ==
    (FetchedURL \/ FetchedGitHub) => tmp = last.tmpPre

\* The archive carries an entry of the marker's own name.
HoldsMarker(arch) == \E i \in 1..Len(arch) : arch[i][Len(arch[i])] = MarkerName
HoldsFile(arch) == \E i \in 1..Len(arch) : ~IsDirEntry(arch[i])

DestWasFresh == ~Exists(last.fsPre, Abs(last.f.Dest))
MarkerAtDest == Append(Abs(last.f.Dest), MarkerName) \in DOMAIN fs

\* C5 (as stated): an HTTP or GitHub fetch that returns a download or
\* extraction error has not created the marker, and a successful HTTP fetch
\* into a fresh destination leaves the marker at the destination root.
C5_MarkerAfterEverySuccess ==
    /\ ((FetchedURL \/ FetchedGitHub)
            /\ last.err \in {"failed to fetch from URL", "failed to fetch from GitHub"})
        => Markers(fs) = Markers(last.fsPre)
    /\ (Fetched /\ last.f.SourceType = SourceHTTP /\ last.err = "" /\ DestWasFresh)
        => MarkerAtDest

\* C5 (amended): an HTTP or GitHub fetch that returns an error has written
\* no marker (a file of the marker's name can then only be an entry of the
\* archive itself), and a successful HTTP fetch into a fresh destination
\* leaves the marker at the destination root when the marker could be
\* written: the disk accepted it and the archive held a file, so that the
\* destination directory exists. Without that the fetch still succeeds.
C5_MarkerOnlyAfterSuccess ==
    /\ ((FetchedURL \/ FetchedGitHub) /\ last.err # "" /\ ~HoldsMarker(last.env.arch))
        => Markers(fs) = Markers(last.fsPre)
    /\ (Fetched /\ last.f.SourceType = SourceHTTP /\ last.err = "" /\ DestWasFresh)
        => (MarkerAtDest <=> (HoldsMarker(last.env.arch)
                              \/ (last.env.markerOk /\ HoldsFile(last.env.arch))))

C5_Witness ==
    /\ Fetched /\ last.f.SourceType = SourceHTTP /\ last.err = "" /\ DestWasFresh
    /\ last.env.arch = ArchRepo /\ MarkerAtDest

\* Paths isFetched is asked about: cache directories, the cache root, a
\* directory of sources, an empty directory, a file and a missing path.
ProbePaths ==
    {CacheA, CacheB, <<"/", "h", "/", "deps">>, SrcAbs, SrcRel, SrcMissing,
     <<"/", "w", "/", "e">>, <<"/", "w", "/", "s", "/", "x.proto">>}

\* C6: isFetched(path) is true exactly when the path exists, holds at least
\* one entry and holds the marker file.
C6_IsFetchedExactly ==
    \A p \in ProbePaths :
        isFetched(fs, p) <=> /\ Abs(p) \in DOMAIN fs
                             /\ fs[Abs(p)].kind # "file"
                             /\ ReadDir(fs, Abs(p)) # {}
                             /\ MarkerName \in ReadDir(fs, Abs(p))

\* A fetch was skipped because its destination was fetched, while a missing
\* directory, an empty one and one of sources without marker are not fetched.
C6_Witness ==
    /\ FetchedURL /\ isFetched(last.fsPre, last.f.Dest) /\ last.reqs = <<>>
    /\ ~isFetched(fs, SrcMissing) /\ ~Exists(fs, Abs(SrcMissing))
    /\ ~isFetched(fs, <<"/", "w", "/", "e">>) /\ IsDir(fs, <<"w", "e">>)
    /\ ~isFetched(fs, SrcAbs) /\ ReadDir(fs, Abs(SrcAbs)) # {}

LocalSource == Abs(last.f.Source)
LocalDest == Abs(last.f.Dest)

\* os.Symlink can create the link: nothing is at the destination and the
\* directory that is to hold it exists.
Linkable == LocalDest \notin DOMAIN last.fsPre /\ IsDir(last.fsPre, Dir(LocalDest))

\* C7 (as stated): a Local fetch first compares the absolute source and
\* destination paths and succeeds without change when they are equal;
\* otherwise it fails creating nothing when the source is missing, and else
\* creates the symbolic link; it never writes a marker.
C7_LocalComparesFirst ==
    FetchedLocal =>
        /\ Markers(fs) = Markers(last.fsPre)
        /\ IF LocalSource = LocalDest THEN last.err = "" /\ fs = last.fsPre
           ELSE IF ~Exists(last.fsPre, LocalSource) THEN last.err # "" /\ fs = last.fsPre
           ELSE last.err = "" /\ fs = Put(last.fsPre, LocalDest, LinkNode(LocalSource))

\* C7 (amended): a Local fetch first fails, creating nothing, when the source
\* path does not exist; otherwise it succeeds without change when the
\* absolute source and destination paths are equal; otherwise it creates at
\* the destination a symbolic link to the absolute source path, or fails
\* without change when the link cannot be created (something is at the
\* destination already, or its directory is missing). It never writes a
\* marker.
C7_LocalChecksSourceFirst ==
    FetchedLocal =>
        /\ Markers(fs) = Markers(last.fsPre)
        /\ IF ~Exists(last.fsPre, LocalSource)
           THEN last.err = "source path does not exist" /\ fs = last.fsPre
           ELSE IF LocalSource = LocalDest THEN last.err = "" /\ fs = last.fsPre
           ELSE IF Linkable
           THEN last.err = "" /\ fs = Put(last.fsPre, LocalDest, LinkNode(LocalSource))
           ELSE last.err = "failed to create symlink" /\ fs = last.fsPre

\* A link was made from a relative source path, and the marker is not there.
C7_Witness ==
    /\ FetchedLocal /\ last.err = "" /\ last.f.Source = SrcRel
    /\ LocalDest \in DOMAIN fs /\ fs[LocalDest] = LinkNode(<<"w", "s">>)
    /\ LocalDest \notin DOMAIN last.fsPre

(***************************************************************************)
(* Resolving the dependencies a project declares: a command builds the     *)
(* manager (NewResolver) and runs ResolveDependencies on the declarations  *)
(* of the project file, each against an environment of its own.            *)
(***************************************************************************)
MaxDeps == 2

Decl(name, type, source) == [Name |-> name, Type |-> type, Source |-> source, Version |-> <<>>]

Declarable ==
    {Decl(<<"a">>, SourceLocal, SrcAbs), Decl(<<"a">>, SourceHTTP, HttpsURL),
     Decl(<<"b">>, SourceLocal, SrcMissing), Decl(<<"b">>, SourceGitHub, <<"o", "/", "r">>),
     Decl(<<"b">>, SourceGoogleWellKnown, <<>>)}

\* The lists of declarations a project file holds: AddDependency refuses a
\* name that is declared already.
Configs ==
    {c \in UNION {[1..n -> Declarable] : n \in 0..MaxDeps} :
        \A i, j \in 1..Len(c) : i # j => c[i].Name # c[j].Name}

\* What the network and the disk may do during a resolution.
ResolveEnv ==
    {e \in Env : /\ e.dl \in {"ok", "get", "copy"}
                 /\ e.arch \in {ArchEmpty, ArchRepo, ArchProtoc}
                 /\ e.markerOk \/ (e.arch = ArchRepo /\ e.failAt = 0)}

EnvsFor(deps) ==
    {es \in [1..Len(deps) -> ResolveEnv] :
        \A i \in 1..Len(deps) : deps[i].Type = SourceLocal => es[i] = NoEnv}

\* Manager.ResolveDependencies
ManagerResolveDependencies(deps, st, envs) ==
    IF Len(deps) = 0 THEN [st |-> st, err |-> "", name |-> <<>>, steps |-> <<>>]
    ELSE ResolveDependencies(deps, st, envs)

\* NewManager, then Manager.ResolveDependencies
resolveCommand(n, deps, envs) ==
    IF n.err # ""
    THEN [st |-> n.st, err |-> "failed to create dependency cache", name |-> <<>>,
          steps |-> <<>>]
    ELSE ManagerResolveDependencies(deps, n.st, envs)

Resolved(r) ==
    /\ fs' = r.st.fs
    /\ tmp' = r.st.tmp
    /\ nops' = nops + 1
    /\ run' = [deps |-> cfg.Dependencies, err |-> r.err, name |-> r.name, steps |-> r.steps,
               reqs |-> r.st.reqs, fsPre |-> fs, tmpPre |-> tmp,
               again |-> nops > 0 /\ run.err = ""]
    /\ UNCHANGED <<last, cfg, onPath, gen, cmd, parse, cache, project, procs>>

ResolveAll ==
    /\ nops < MaxOps
    /\ \E envs \in EnvsFor(cfg.Dependencies) :
          Resolved(resolveCommand(NewResolver([fs |-> fs, tmp |-> tmp, reqs |-> <<>>]),
                                  cfg.Dependencies, envs))

InitResolve ==
    /\ fs = InitFS
    /\ tmp = 0
    /\ nops = 0
    /\ last = NoLast
    /\ cfg \in {[NoConfig EXCEPT !.Dependencies = d] : d \in Configs}
    /\ run = NoRun
    /\ onPath = {}
    /\ gen = NoGen
    /\ cmd = NoCmd
    /\ parse = NoParse
    /\ cache = NoCache
    /\ project = NoProject
    /\ procs = NoProcs

NextResolve == ResolveAll

SpecResolve == InitResolve /\ [][NextResolve]_vars

(***************************************************************************)
(* Properties of a resolution, stated on the last run: run.steps holds, in *)
(* the order the loop took them, the declarations it attempted.            *)
(***************************************************************************)
\* What is on disk f at and below the cache directory of the name.
Below(f, name) ==
    LET p == Abs(Join(outputPath, name))
    IN  [q \in {x \in DOMAIN f : Len(x) >= Len(p) /\ SubSeq(x, 1, Len(p)) = p} |-> f[q]]

CacheOf(f) == [q \in {x \in DOMAIN f : Len(x) >= 2 /\ SubSeq(x, 1, 2) = Abs(outputPath)} |-> f[q]]

\* C2: resolving the same list of declarations again, after a run that
\* succeeded, succeeds again and leaves the dependency cache as it was.
C2_RepeatChangesNothing ==
    run.again => (run.err = "" /\ CacheOf(fs) = CacheOf(run.fsPre))

\* C3: the declarations are processed in list order and the run stops at the
\* first failure: the error names the failing declaration, every declaration
\* before it was resolved and stays as it was resolved, and no declaration
\* after it is attempted.
C3_StopsAtFirstFailure ==
    nops > 0 =>
        /\ Len(run.steps) <= Len(run.deps)
        /\ Len(run.reqs) <= Len(run.steps)
        /\ \A j \in 1..Len(run.steps) :
              /\ run.steps[j].Name = run.deps[j].Name
              /\ j < Len(run.steps) => run.steps[j].err = ""
        /\ IF run.err = ""
           THEN /\ Len(run.steps) = Len(run.deps)
                /\ \A j \in 1..Len(run.steps) : run.steps[j].err = ""
           ELSE /\ Len(run.steps) >= 1
                /\ run.steps[Len(run.steps)].err # ""
                /\ run.name = run.deps[Len(run.steps)].Name
                /\ \A j \in 1..(Len(run.steps) - 1) :
                      Below(fs, run.deps[j].Name) = Below(run.steps[j].fs, run.deps[j].Name)
                /\ \A j \in (Len(run.steps) + 1)..Len(run.deps) :
                      Below(fs, run.deps[j].Name) = Below(run.fsPre, run.deps[j].Name)

\* The first of two declarations failed, and nothing was done for the second,
\* which an environment that lets it through would have resolved.
C3_Witness ==
    /\ nops = 1 /\ run.err # "" /\ Len(run.deps) = 2 /\ Len(run.steps) = 1
    /\ run.deps[2].Type = SourceLocal /\ run.deps[2].Source = SrcAbs
    /\ Below(fs, run.deps[2].Name) = Below(InitFS, run.deps[2].Name)

(***************************************************************************)
(* Generating code: a command builds the manager from the project file and *)
(* the tool configuration and calls Generate with the language, output     *)
(* directory, plugins and options the caller gave. A behaviour is one such  *)
(* command, started from any project file, cache path of the executor and  *)
(* search path.                                                            *)
(***************************************************************************)
projectPath == <<"/", "w">>

PluginDoc ==
    [Name |-> "doc", Command |-> "protoc-gen-doc", OutputDir |-> <<>>,
     Options |-> <<[k |-> "doc_opt", v |-> "html"]>>, Required |-> FALSE]
PluginGrpc ==
    [Name |-> "go-grpc", Command |-> "protoc-gen-go-grpc", OutputDir |-> <<"gen", "/", "grpc">>,
     Options |-> <<[k |-> "go-grpc_opt", v |-> "paths=source_relative"],
                   [k |-> "go-grpc_opt2", v |-> "require_unimplemented_servers=false"]>>,
     Required |-> TRUE]
PluginCli ==
    [Name |-> "cli", Command |-> "protoc-gen-cli", OutputDir |-> <<>>, Options |-> <<>>,
     Required |-> FALSE]

LangOpts == <<[k |-> "go_opt", v |-> "paths=source_relative"], [k |-> "go_opt2", v |-> "M"]>>
CliOpts == <<[k |-> "go_opt", v |-> "paths=import"]>>

\* The global plugins and the plugins of language go of a project file.
PluginDecls ==
    {<< <<>>, <<>> >>, << <<PluginDoc>>, <<PluginGrpc>> >>, << <<PluginGrpc>>, <<PluginDoc>> >>,
     << <<PluginDoc, PluginGrpc>>, <<>> >>}

PyLang == [Name |-> "python", OutputDir |-> <<"py">>, Options |-> <<>>, Plugins |-> <<>>]

\* An entry of the languages list that was written without a name.
UnnamedLang == [Name |-> "", OutputDir |-> <<>>, Options |-> <<>>, Plugins |-> <<>>]

GenConfigs ==
    {[Dependencies |-> <<>>,
      Languages |-> <<[Name |-> "go", OutputDir |-> o, Options |-> m, Plugins |-> d[2]], PyLang,
                      UnnamedLang>>,
      Plugins |-> d[1]] :
        o \in {<<>>, <<"gen">>}, m \in {<<>>, LangOpts}, d \in PluginDecls}

Commands ==
    {"protoc", "protoc-gen-go", "protoc-gen-doc", "protoc-gen-go-grpc", "protoc-gen-cli"}
SearchPaths ==
    {Commands} \cup {Commands \ {c} : c \in Commands}
    \cup {Commands \ {"protoc-gen-doc", "protoc-gen-go-grpc"}}

\* What the caller of Generate gives.
CliOptions ==
    [Name : {"go", "python", "ts", ""}, OutputDir : {<<>>, <<"out">>},
     Plugins : {<<>>, <<PluginCli>>}, Options : {<<>>, CliOpts}]
ProtoFiles == {<<>>, << <<"x.proto">> >>}

\* What the world does during one Generate: an install command and a
\* download of protoc have an outcome only when they are run.
GenEnvFor(language, path) ==
    [rev : BOOLEAN, exit : {"", "exit status 1"},
     install : IF languagePlugin(language) \in path \cup {""} THEN {"none"}
               ELSE {"fails", "ok", "elsewhere"},
     protoc : IF "protoc" \in path THEN {ProtocEnv("ok")}
              ELSE {ProtocEnv("get"), ProtocEnv("ok"), ProtocEnv("lost")}]

Generates(protoFiles, options, e, g) ==
    /\ fs' = g.fs
    /\ onPath' = g.r.path
    /\ nops' = nops + 1
    /\ gen' = [called |-> TRUE, executor |-> gen.executor, files |-> protoFiles,
               options |-> options, env |-> e, pathPre |-> onPath, boot |-> gen.boot,
               res |-> g]
    /\ UNCHANGED <<tmp, last, cfg, run, cmd, parse, cache, project, procs>>

GenerateFiles ==
    /\ ~gen.called
    /\ \E protoFiles \in ProtoFiles, options \in CliOptions :
          \E e \in GenEnvFor(options.Name, onPath) :
              Generates(protoFiles, options, e,
                        Generate([projectPath |-> projectPath, config |-> cfg,
                                  executor |-> gen.executor],
                                 protoFiles, options, fs, onPath, e))

InitGenerate ==
    /\ fs = InitFS
    /\ tmp = 0
    /\ nops = 0
    /\ last = NoLast
    /\ cfg \in GenConfigs
    /\ run = NoRun
    /\ onPath \in SearchPaths
    /\ gen \in {[NoGen EXCEPT !.executor.depsPath = d] : d \in {<<>>, outputPath}}
    /\ cmd = NoCmd
    /\ parse = NoParse
    /\ cache = NoCache
    /\ project = NoProject
    /\ procs = NoProcs

NextGenerate == GenerateFiles

SpecGenerate == InitGenerate /\ [][NextGenerate]_vars

(***************************************************************************)
(* Properties of Generate, stated on the call of the behaviour: gen.res is *)
(* what it returned, gen.res.call what it gave to GenerateCode, and        *)
(* gen.res.r.process what Process returned.                                *)
(***************************************************************************)
ProcessResult == gen.res.r.process
ProcessCalled == gen.called /\ gen.res.invoked /\ ProcessResult # NoProcess
CustomPlugins == gen.res.call.options.CustomPlugins

\* The plugin's Command is not on the search path Process checks it on.
Missing(plugin) == plugin.Command \notin ProcessResult.path

IsOutFlag(a) == Len(a) >= 4 /\ a[1] = "--" /\ a[3] = "_out"

\* The flags Process writes for a plugin, its options in any order.
FlagsOf(plugin) ==
    {a \in {ProcessResult.args[i] : i \in 1..Len(ProcessResult.args)} :
        \/ (IsOutFlag(a) /\ a[2] = plugin.Name)
        \/ \E i \in 1..Len(plugin.Options) : a = OptionFlags(plugin.Options)[i]}

\* C8: when the Command of a custom plugin is not on the search path, Process
\* fails as a whole and returns no vector if the plugin is Required; if it is
\* optional Process goes on, the vector holds neither the plugin's
\* --<Name>_out flag nor any of its option flags, and it is the vector that
\* the other plugins alone would have given.
C8_MissingPlugin ==
    (ProcessCalled /\ ProcessResult.err # "failed to ensure language plugins") =>
        IF \E i \in 1..Len(CustomPlugins) : Missing(CustomPlugins[i]) /\ CustomPlugins[i].Required
        THEN /\ ProcessResult.err = "failed to ensure custom plugin"
             /\ ProcessResult.args = <<>>
             /\ ~gen.res.r.started /\ gen.res.err # ""
        ELSE /\ ProcessResult.err = ""
             /\ \A i \in 1..Len(CustomPlugins) :
                   IF Missing(CustomPlugins[i]) THEN FlagsOf(CustomPlugins[i]) = {}
                   ELSE Cardinality(FlagsOf(CustomPlugins[i]))
                            = 1 + Len(CustomPlugins[i].Options)
             /\ ProcessResult.args =
                   Process(gen.res.call.language, gen.res.call.outputDir,
                           SelectSeq(CustomPlugins, LAMBDA p : ~Missing(p)),
                           ProcessResult.path, gen.env).args

\* An optional plugin was not found and skipped, and another plugin was found.
C8_Witness ==
    /\ ProcessCalled /\ ProcessResult.err = ""
    /\ \E i, j \in 1..Len(CustomPlugins) :
          /\ Missing(CustomPlugins[i]) /\ ~CustomPlugins[i].Required
          /\ ~Missing(CustomPlugins[j]) /\ FlagsOf(CustomPlugins[j]) # {}

Started == gen.called /\ gen.res.r.started
Argv == gen.res.r.argv

\* C9 (as stated): in the vector the compiler is started with, the
\* --proto_path flag of the project and, when the cache path is not empty,
\* the --proto_path flag of the cache both come before the --<language>_out
\* flag and before every plugin flag.
C9_SearchPathsFirst ==
    Started =>
        /\ \E i \in 1..Len(Argv) : Argv[i] = ProtoPathFlag(projectPath)
        /\ gen.executor.depsPath # <<>>
              => \E i \in 1..Len(Argv) : Argv[i] = ProtoPathFlag(gen.executor.depsPath)
        /\ \A i, j \in 1..Len(Argv) :
              (Argv[i][2] = "proto_path" /\ IsOutFlag(Argv[j])) => i < j

\* C9 (amended): the --proto_path flag of the cache, when the cache path is
\* not empty, is the first argument, before the --<language>_out flag and
\* every plugin flag; the --proto_path flag of the project comes after the
\* --<language>_out flag and after every plugin flag, and only the options
\* of the language and the proto files follow it.
C9_CachePathFirstProjectPathLater ==
    Started =>
        /\ IF gen.executor.depsPath # <<>>
           THEN /\ Argv[1] = ProtoPathFlag(gen.executor.depsPath)
                /\ Argv[2] = OutFlag(gen.res.call.language, gen.res.call.outputDir)
           ELSE Argv[1] = OutFlag(gen.res.call.language, gen.res.call.outputDir)
        /\ \E k \in 1..Len(Argv) :
              /\ Argv[k] = ProtoPathFlag(projectPath)
              /\ \A j \in 1..Len(Argv) : IsOutFlag(Argv[j]) => j < k
              /\ Len(Argv) = k + Len(gen.res.call.options.Options) + Len(gen.files)
              /\ \A j \in 1..Len(gen.res.call.options.Options) :
                    Argv[k + j] = OptionFlags(Range(gen.res.call.options.Options, gen.env.rev))[j]
              /\ \A j \in 1..Len(gen.files) :
                    Argv[k + Len(gen.res.call.options.Options) + j] = gen.files[j]

\* The compiler was started with a cache path, two plugins and options.
C9_Witness ==
    /\ Started /\ gen.executor.depsPath # <<>>
    /\ Cardinality({j \in 1..Len(Argv) : IsOutFlag(Argv[j])}) = 3
    /\ Len(gen.res.call.options.Options) = 2

\* The value Generate is to use for a field: the caller's when the caller
\* gave one, the project file's otherwise.
Chosen(given, declared) == IF Len(given) > 0 THEN given ELSE declared

DeclaredLanguage == GetLanguage(cfg, gen.options.Name).l

\* C10: for the output directory, the plugin list and the options, Generate
\* passes to the compiler invocation the value of the caller when the caller
\* gave a non-empty one, and the value of the project file for that language
\* otherwise.
C10_CallerValuesWin ==
    (gen.called /\ gen.res.invoked) =>
        /\ gen.res.call.outputDir = Chosen(gen.options.OutputDir, DeclaredLanguage.OutputDir)
        /\ gen.res.call.options.Options = Chosen(gen.options.Options, DeclaredLanguage.Options)
        /\ gen.res.call.options.CustomPlugins
              = cfg.Plugins \o Chosen(gen.options.Plugins, DeclaredLanguage.Plugins)

\* The output directory Generate settles on: the caller's, else the project
\* file's for the language.
ResolvedOutputDir == Chosen(gen.options.OutputDir, DeclaredLanguage.OutputDir)

\* One of the four preconditions of Generate does not hold.
GenerateRefuses ==
    \/ Len(gen.files) = 0
    \/ ~GetLanguage(cfg, gen.options.Name).found
    \/ ResolvedOutputDir = <<>>
    \/ DeclaredLanguage.Name = ""

\* C11: Generate returns an error when the list of proto files is empty,
\* when the project file has no entry for the language, when the resolved
\* output directory is empty or when the name of the language is empty; in
\* each case no directory has been created, the search for (and download
\* of) the compiler has not begun and no compiler process has been started.
\* When none of the four holds, Generate goes on to create the directory.
C11_RefusesBeforeAnyEffect ==
    gen.called =>
        IF GenerateRefuses
        THEN /\ gen.res.err \in {"no proto files to generate", "no language configured",
                                 "output directory is required", "language name is required"}
             /\ fs = InitFS
             /\ onPath = gen.pathPre
             /\ ~gen.res.invoked /\ ~gen.res.r.started
        ELSE /\ gen.res.err \notin {"no proto files to generate", "no language configured",
                                    "output directory is required", "language name is required"}
             /\ IsDir(fs, Abs(ResolvedOutputDir))

\* Each of the four refusals happens; the witness is the one for a language
\* entry without a name, called with files and an output directory, while
\* the compiler is not on the search path.
C11_Witness ==
    /\ gen.called /\ gen.res.err = "language name is required"
    /\ Len(gen.files) > 0 /\ gen.options.OutputDir # <<>>
    /\ "protoc" \notin onPath /\ ~Exists(fs, Abs(gen.options.OutputDir))

(***************************************************************************)
(* the generate command: the source is fetched, the manager is built on    *)
(* it, the proto files are found and validated (which resolves the         *)
(* declared dependencies and runs the compiler once without output), and   *)
(* Generate is called.                                                     *)
(***************************************************************************)
\* The file names of the model that end with ".proto".
ProtoNames == {"x.proto", "y.proto", "any.proto"}

\* The files filepath.WalkDir finds below the directory base, links not
\* followed, as the path strings it hands to its callback.
walked(f, root, base) ==
    {(IF root = <<".">> THEN <<>> ELSE root \o <<"/">>)
        \o JoinParts([i \in 1..(Len(p) - Len(base)) |-> <<p[Len(base) + i]>>], "/") :
        p \in {q \in DOMAIN f : /\ Len(q) > Len(base) /\ SubSeq(q, 1, Len(base)) = base
                                /\ f[q].kind = "file" /\ q[Len(q)] \in ProtoNames}}

\* Manager.GetProtoFiles with BaseDir "." and nothing excluded: the .proto
\* files below the project path, in the order of the walk; none when the
\* project path is no directory.
GetProtoFiles(f, root) ==
    IF Abs(root) \notin DOMAIN f \/ f[Abs(root)].kind # "dir" THEN <<>>
    ELSE CHOOSE q \in [1..Cardinality(walked(f, root, Abs(root)))
                          -> walked(f, root, Abs(root))] :
            \A i, j \in DOMAIN q : i # j => q[i] # q[j]

\* validateWithProtoc once the compiler has run
protocValidated(r, v) ==
    Validated(r.st, v.path, IF v.err # "" THEN "validation failed" ELSE "", TRUE, r, v)

\* resolvedForValidation, were the error of ResolveDependencies dropped.
resolvedForValidation_errorDropped(m, protoFiles, r, path, e) ==
    protocValidated(r, Run(m.executor, protoFiles,
                           <<<<"--", "descriptor_set_out", "=", "/dev/null">>,
                             ProtoPathFlag(m.projectPath)>>,
                           path, NoProcess, [e EXCEPT !.exit = e.vexit]))

\* validateWithProtoc once ResolveDependencies returned r
resolvedForValidation(m, protoFiles, r, path, e) ==
    IF r.err # ""
    THEN Validated(r.st, path, "failed to get import paths", TRUE, r,
                   NotStarted(path, "", NoProcess))
    ELSE protocValidated(r, Run(m.executor, protoFiles,
                                <<<<"--", "descriptor_set_out", "=", "/dev/null">>,
                                  ProtoPathFlag(m.projectPath)>>,
                                path, NoProcess, [e EXCEPT !.exit = e.vexit]))

validateWithProtoc(m, protoFiles, st, path, envs, e) ==
    resolvedForValidation(m, protoFiles,
                          ManagerResolveDependencies(m.config.Dependencies, st, envs), path, e)

\* Manager.Validate: every file is a .proto file that exists, then
\* validateWithProtoc.
Validate(m, protoFiles, st, path, envs, e) ==
    IF \E i \in 1..Len(protoFiles) : protoFiles[i][Len(protoFiles[i])] \notin ProtoNames
    THEN Validated(st, path, "file is not a .proto file", FALSE, NoResolve,
                   NotStarted(path, "", NoProcess))
    ELSE IF \E i \in 1..Len(protoFiles) : ~Exists(st.fs, Abs(protoFiles[i]))
    THEN Validated(st, path, "file does not exist", FALSE, NoResolve,
                   NotStarted(path, "", NoProcess))
    ELSE validateWithProtoc(m, protoFiles, st, path, envs, e)

commandGenerated(protoFiles, options, x, g) ==
    [st |-> [x.st EXCEPT !.fs = g.fs], path |-> g.r.path,
     err |-> IF g.err # "" THEN "code generation failed" ELSE "", reached |-> "generate",
     x |-> x, generated |-> TRUE, files |-> protoFiles, options |-> options, g |-> g]

filesValidated(m, protoFiles, options, x, e) ==
    IF x.err # "" THEN Stopped(x.st, x.path, "file validation failed", "validate", x)
    ELSE commandGenerated(protoFiles, options, x,
                          Generate(m, protoFiles, options, x.st.fs, x.path, e))

filesFound(m, protoFiles, options, st, path, envs, e) ==
    IF Len(protoFiles) = 0 THEN Stopped(st, path, "no proto files found", "files", NotValidated)
    ELSE filesValidated(m, protoFiles, options, Validate(m, protoFiles, st, path, envs, e), e)

managerMade(f, n, options, config, executor, path, envs, e) ==
    IF n.err # ""
    THEN Stopped(n.st, path, "failed to initialize project manager", "manager", NotValidated)
    ELSE filesFound([projectPath |-> f.Dest, config |-> config, executor |-> executor],
                    GetProtoFiles(n.st.fs, f.Dest), options, n.st, path, envs, e)

sourceFetched(f, r, options, config, executor, path, envs, e) ==
    IF r.err # "" THEN Stopped(r.st, path, "failed to fetch source", "fetch", NotValidated)
    ELSE managerMade(f, NewResolver(r.st), options, config, executor, path, envs, e)

fetcherMade(n, options, config, executor, st, path, envs, e) ==
    IF n.err # "" THEN Stopped(st, path, "failed to initialize fetcher", "fetcher", NotValidated)
    ELSE sourceFetched(n.f, Fetch(n.f, st, NoEnv), options, config, executor, path, envs, e)

\* generateCmd.RunE for a local source, which is used where it is (a source
\* of another type is first fetched into a temporary directory); config is
\* the project file NewManager loads, executor the one it builds.
generateCmd(language, source, outputDir, config, executor, st, path, envs, e) ==
    fetcherMade(NewFetcherFromURL(source, <<>>),
                [Name |-> language, OutputDir |-> outputDir, Plugins |-> <<>>, Options |-> <<>>],
                config, executor, st, path, envs, e)

(***************************************************************************)
(* One generate command per behaviour, on a project whose file declares    *)
(* dependencies, against a network that may fail and a search path that    *)
(* may lack the compiler or a generator.                                   *)
(***************************************************************************)
GoLang == [Name |-> "go", OutputDir |-> <<"gen">>, Options |-> <<>>, Plugins |-> <<PluginGrpc>>]

CommandDeps ==
    {<<>>, <<Decl(<<"a">>, SourceLocal, SrcAbs)>>, <<Decl(<<"b">>, SourceLocal, SrcMissing)>>,
     <<Decl(<<"a">>, SourceHTTP, HttpsURL), Decl(<<"b">>, SourceGitHub, <<"o", "/", "r">>)>>,
     <<Decl(<<"a">>, SourceLocal, SrcAbs), Decl(<<"b">>, SourceLocal, SrcMissing)>>}

CommandConfigs == {[Dependencies |-> d, Languages |-> <<GoLang>>, Plugins |-> <<>>] : d \in CommandDeps}

\* The sources of a command: the project directory, a directory without
\* proto files and a directory that does not exist.
CommandSources == {<<".">>, <<"e">>, SrcMissing}

CommandPaths ==
    {Commands, Commands \ {"protoc"}, Commands \ {"protoc-gen-go"}, Commands \ {"protoc-gen-go-grpc"}}

CommandEnvsFor(deps) ==
    {es \in EnvsFor(deps) :
        \A i \in 1..Len(deps) : /\ es[i].failAt = 0 /\ es[i].markerOk
                                 /\ es[i].dl \in {"ok", "get"}
                                 /\ es[i].arch \in {ArchEmpty, ArchRepo}}

\* vexit: how the compiler run of the validation ends.
CommandEnvFor(language, path) ==
    {[rev |-> FALSE, exit |-> g.exit, install |-> g.install, protoc |-> g.protoc, vexit |-> v] :
        g \in {x \in GenEnvFor(language, path) : ~x.rev}, v \in {"", "exit status 1"}}

Commanded(language, source, outputDir, envs, e, c) ==
    /\ fs' = c.st.fs
    /\ tmp' = c.st.tmp
    /\ nops' = nops + 1
    /\ onPath' = c.path
    /\ run' = IF c.x.resolved
              THEN [deps |-> cfg.Dependencies, err |-> c.x.r.err, name |-> c.x.r.name,
                    steps |-> c.x.r.steps, reqs |-> c.x.r.st.reqs, fsPre |-> fs,
                    tmpPre |-> tmp, again |-> FALSE]
              ELSE run
    /\ gen' = IF c.generated
              THEN [called |-> TRUE, executor |-> gen.executor, files |-> c.files,
                    options |-> c.options, env |-> e, pathPre |-> c.x.path,
                    boot |-> gen.boot, res |-> c.g]
              ELSE gen
    /\ cmd' = [called |-> TRUE, language |-> language, source |-> source,
               outputDir |-> outputDir, envs |-> envs, env |-> e, res |-> c]
    /\ UNCHANGED <<last, cfg, parse, cache, project, procs>>

GenerateCommand ==
    /\ ~cmd.called
    /\ \E language \in {"go", "ts"}, source \in CommandSources, outputDir \in {<<>>, <<"out">>} :
          \E envs \in CommandEnvsFor(cfg.Dependencies), e \in CommandEnvFor(language, onPath) :
              Commanded(language, source, outputDir, envs, e,
                        generateCmd(language, source, outputDir, cfg, gen.executor,
                                    [fs |-> fs, tmp |-> tmp, reqs |-> <<>>], onPath, envs, e))

InitCommand ==
    /\ fs = InitFS
    /\ tmp = 0
    /\ nops = 0
    /\ last = NoLast
    /\ cfg \in CommandConfigs
    /\ run = NoRun
    /\ onPath \in CommandPaths
    /\ gen = [NoGen EXCEPT !.executor.depsPath = outputPath]
    /\ cmd = NoCmd
    /\ parse = NoParse
    /\ cache = NoCache
    /\ project = NoProject
    /\ procs = NoProcs

NextCommand == GenerateCommand

SpecCommand == InitCommand /\ [][NextCommand]_vars

(***************************************************************************)
(* Properties of a generate command: run is the resolution its validation  *)
(* made, cmd.res.x.v the compiler run of the validation, gen the Generate   *)
(* call and gen.res.r the compiler run of the code generation.             *)
(***************************************************************************)
\* The disk the resolution of the command left.
ResolvedDisk == IF run.steps = <<>> THEN run.fsPre ELSE run.steps[Len(run.steps)].fs

\* Every declaration of the project file was resolved, and Generate started
\* from the cache as the resolution left it.
ResolutionCompleted ==
    /\ cmd.res.x.resolved /\ run.err = ""
    /\ Len(run.steps) = Len(cfg.Dependencies)
    /\ \A j \in 1..Len(run.steps) : run.steps[j].err = ""
    /\ CacheOf(cmd.res.x.st.fs) = CacheOf(ResolvedDisk)

\* Why Generate ends before the compiler is started, told from what it was
\* called with: the compiler is neither found nor installed, the generator
\* of the language is not found and its install command fails, or the
\* Command of a required plugin is not found.
BootstrapFails ==
    /\ gen.executor.protocPath \notin gen.pathPre
    /\ ~(/\ getCurrentPlatform(gen.env.protoc.goos, gen.env.protoc.goarch) # <<>>
         /\ gen.env.protoc.outcome = "ok")
LanguagePluginFails ==
    languagePlugin(gen.options.Name) \notin gen.pathPre \cup {""} /\ gen.env.install = "fails"
RequiredPluginMissing ==
    \E i \in 1..Len(GetAllPlugins(cfg, gen.options.Name)) :
        /\ GetAllPlugins(cfg, gen.options.Name)[i].Required
        /\ GetAllPlugins(cfg, gen.options.Name)[i].Command \notin gen.pathPre

\* One Generate call starts the compiler once for its language, unless a
\* precondition, a plugin or the bootstrap of the compiler fails, and it
\* returns how the process ended.
OneCompilerProcess ==
    gen.called =>
        /\ gen.res.r.started <=> ~(GenerateRefuses \/ BootstrapFails \/ LanguagePluginFails
                                    \/ RequiredPluginMissing)
        /\ gen.res.r.started =>
              /\ gen.res.r.exited
              /\ gen.res.err = "" <=> gen.env.exit = ""
              /\ Cardinality({i \in 1..Len(Argv) :
                                 Argv[i] = OutFlag(gen.options.Name, ResolvedOutputDir)}) = 1
        /\ ~gen.res.r.started => gen.res.err # "" /\ ~gen.res.r.exited

GitHubForms ==
    {<<"o", "/", "r">>, <<"github.com", "/", "o", "/", "r">>,
     <<"https", "://", "github.com", "/", "o", "/", "r">>,
     <<"git@", "github.com", ":", "o", "/", "r", ".git">>}

DispatchTypes ==
    {SourceLocal, SourceGitHub, SourceProtodex, SourceHTTP, SourceGoogleWellKnown, "svn"}

\* Locators as ParseSource leaves them (host and path, no scheme), a URL
\* and a directory.
DispatchSources == {<<"protobuf">>, HttpsURL, SrcAbs} \cup GitHubForms

FetchAny ==
    /\ nops = 0
    /\ \E type \in DispatchTypes, source \in DispatchSources, version \in Versions,
          dest \in RemoteDests, e \in Env :
          LET f == NewFetcher(type, source, version, dest)
          IN  Ran(f, e, Fetch(f, [fs |-> fs, tmp |-> tmp, reqs |-> <<>>], e))

NextDispatch == FetchAny

SpecDispatch == InitFetch /\ [][NextDispatch]_vars

\* C13: Fetch chooses by the type of the descriptor alone, one strategy for
\* each of the five types: a Local fetch asks nothing of the network and
\* links the destination to the source; a GitHub fetch requests the archive
\* of the repository its locator names; a Registry fetch pulls (locator, version) from the
\* registry into the destination; an HTTP fetch downloads the zip at its
\* URL; a WellKnown fetch downloads the well-known includes (the release
\* archive of the compiler); a descriptor of any other type gets the error
\* "unsupported source type" and neither a request nor a change on disk.
C13_OneStrategyPerType ==
    Fetched =>
        IF last.f.SourceType = SourceLocal
        THEN last.reqs = <<>>
             /\ (last.err = "" => fs = Put(last.fsPre, LocalDest, LinkNode(LocalSource)))
        ELSE IF last.f.SourceType = SourceGitHub
        THEN last.reqs = IF Len(Split(last.f.Source, "/")) < 2 THEN <<>>
                         ELSE <<githubTarget(<<"github.com", "/">> \o last.f.Source,
                                             IF last.f.Version = <<>> THEN <<"main">>
                                             ELSE last.f.Version).url>>
        ELSE IF last.f.SourceType = SourceProtodex
        THEN last.reqs = <<registryURL(last.f.Source, last.f.Version)>>
        ELSE IF last.f.SourceType = SourceHTTP
        THEN last.reqs = IF HasPrefix(last.f.Source, <<"https", "://">>)
                         THEN <<last.f.Source>> ELSE <<>>
        ELSE IF last.f.SourceType = SourceGoogleWellKnown
        THEN last.reqs = <<googleURL(IF last.f.Version = <<>> THEN googleProtocVersion
                                     ELSE last.f.Version)>>
        ELSE /\ last.err = "unsupported source type"
             /\ last.reqs = <<>> /\ fs = last.fsPre /\ tmp = last.tmpPre

\* What Fetch does with the five types: C13 with the WellKnown descriptor
\* given to the strategy of HTTP, which takes its locator for a URL.
DispatchesFourWays ==
    Fetched =>
        IF last.f.SourceType = SourceLocal
        THEN last.reqs = <<>>
             /\ (last.err = "" => fs = Put(last.fsPre, LocalDest, LinkNode(LocalSource)))
        ELSE IF last.f.SourceType = SourceGitHub
        THEN last.reqs = IF Len(Split(last.f.Source, "/")) < 2 THEN <<>>
                         ELSE <<githubTarget(<<"github.com", "/">> \o last.f.Source,
                                             IF last.f.Version = <<>> THEN <<"main">>
                                             ELSE last.f.Version).url>>
        ELSE IF last.f.SourceType = SourceProtodex
        THEN last.reqs = <<registryURL(last.f.Source, last.f.Version)>>
        ELSE IF last.f.SourceType \in {SourceHTTP, SourceGoogleWellKnown}
        THEN /\ last.reqs = IF HasPrefix(last.f.Source, <<"https", "://">>)
                            THEN <<last.f.Source>> ELSE <<>>
             /\ ~HasPrefix(last.f.Source, <<"https", "://">>) =>
                    last.err \in {"unsupported URL scheme", "invalid URL"}
        ELSE /\ last.err = "unsupported source type"
             /\ last.reqs = <<>> /\ fs = last.fsPre /\ tmp = last.tmpPre


(***************************************************************************)
(* The compiler bootstrap: Executor.Run on every platform, with every way  *)
(* the download of the compiler can end.                                   *)
(***************************************************************************)
GoOS == {"linux", "darwin", "windows", "freebsd"}
GoArch == {"amd64", "arm64", "386"}
DownloadOutcomes ==
    {"mkdir", "get", "status", "mktemp", "copy", "zip", "noprotoc", "create", "write", "chmod",
     "lost", "ok"}
CompilerEnv ==
    [rev : {FALSE}, exit : {"", "exit status 1"}, install : {"none"},
     protoc : [goos : GoOS, goarch : GoArch, outcome : DownloadOutcomes]]

\* Executor.Run(protoFiles, args...), with what its ensureProtoc returned.
RunCompiler ==
    /\ ~gen.called
    /\ \E e \in CompilerEnv, protoFiles \in ProtoFiles \ {<<>>} :
        /\ gen' = [gen EXCEPT !.called = TRUE, !.files = protoFiles, !.env = e,
                              !.pathPre = onPath,
                              !.boot = ensureProtoc(gen.executor, onPath, e),
                              !.res.r = Run(gen.executor, protoFiles, <<>>, onPath,
                                            NoProcess, e)]
        /\ onPath' = Run(gen.executor, protoFiles, <<>>, onPath, NoProcess, e).path
    /\ UNCHANGED <<fs, tmp, nops, last, cfg, run, cmd, parse, cache, project, procs>>

InitCompiler ==
    /\ fs = InitFS
    /\ tmp = 0
    /\ nops = 0
    /\ last = NoLast
    /\ cfg = NoConfig
    /\ run = NoRun
    /\ onPath \in {{}, {"protoc"}, {"protoc-gen-go"}}
    /\ gen \in {[NoGen EXCEPT !.executor.protocPath = b, !.executor.version = v] :
                    b \in {"protoc", ""}, v \in {<<"32.0">>, <<"29.3">>}}
    /\ cmd = NoCmd
    /\ parse = NoParse
    /\ cache = NoCache
    /\ project = NoProject
    /\ procs = NoProcs

NextCompiler == RunCompiler

SpecCompiler == InitCompiler /\ [][NextCompiler]_vars

\* The platforms the compiler is released for.
PlatformSupported ==
    \/ gen.env.protoc.goos \in {"linux", "darwin"} /\ gen.env.protoc.goarch \in {"amd64", "arm64"}
    \/ gen.env.protoc.goos = "windows" /\ gen.env.protoc.goarch = "amd64"

CompilerFound == gen.executor.protocPath \in gen.pathPre
CompilerRequested ==
    \E i \in 1..Len(gen.boot.effects) : Head(gen.boot.effects[i]) = "https://"

\* C14: ensureProtoc downloads nothing when the configured binary is found
\* and executable. Otherwise an unsupported platform is an error before any
\* directory is made and before any request; on a supported platform the
\* directory is made, the archive of that platform requested, the binary
\* created, then marked executable, then looked up again, and ensureProtoc
\* succeeds only when that last lookup finds it. The compiler process is
\* started only after an ensureProtoc that succeeded with the binary found.
C14_CompilerEnsuredBeforeStart ==
    gen.called =>
        /\ CompilerFound => gen.boot.effects = <<>> /\ gen.boot.err = ""
        /\ (~CompilerFound /\ gen.executor.protocPath # "" /\ ~PlatformSupported) =>
              /\ gen.boot.err = "protoc not found and download failed"
              /\ gen.boot.cause = "unsupported platform"
              /\ gen.boot.effects = <<>>
        /\ (~CompilerFound /\ gen.executor.protocPath # "" /\ PlatformSupported) =>
              /\ gen.boot.cause # "unsupported platform"
              /\ gen.env.protoc.outcome # "mkdir" =>
                    /\ Len(gen.boot.effects) >= 2
                    /\ gen.boot.effects[1] = <<"mkdir">>
                    /\ CompilerRequested
              /\ gen.boot.err = "" <=> gen.env.protoc.outcome = "ok"
              /\ gen.boot.err = "" =>
                    /\ Len(gen.boot.effects) = 4
                    /\ gen.boot.effects[3] = <<"create">>
                    /\ gen.boot.effects[4] = <<"chmod">>
              /\ gen.env.protoc.outcome = "lost" =>
                    gen.boot.err = "protoc still not executable after download"
        /\ gen.res.r.started =>
              /\ gen.boot.err = ""
              /\ gen.executor.protocPath \in gen.boot.path
              /\ gen.res.r.path = gen.boot.path

C14_Witness ==
    /\ gen.called /\ ~CompilerFound /\ PlatformSupported
    /\ gen.env.protoc.goos = "darwin" /\ gen.env.protoc.goarch = "arm64"
    /\ gen.env.protoc.outcome = "ok"
    /\ Len(gen.boot.effects) = 4
    /\ gen.res.r.started

\* C15: whenever Process returns an argument vector for a language of the
\* table of ensureLanguagePlugins, the generator of the language is on the
\* search path.
C15_GeneratorOnPathWhenArgsReturned ==
    (ProcessCalled /\ ProcessResult.err = "" /\ languagePlugin(gen.res.call.language) # "") =>
        languagePlugin(gen.res.call.language) \in ProcessResult.path

\* What ensurePlugin guarantees instead: the generator was found, or the
\* install command was run and exited without an error; a language outside
\* the table leaves the search path as ensureProtoc left it.
GeneratorFoundOrInstallRan ==
    (ProcessCalled /\ ProcessResult.err = "") =>
        IF languagePlugin(gen.res.call.language) = ""
        THEN ProcessResult.path = ensureProtoc(gen.executor, gen.pathPre, gen.env).path
        ELSE \/ languagePlugin(gen.res.call.language) \in gen.pathPre
             \/ gen.env.install \in {"ok", "elsewhere"}

(***************************************************************************)
(* The source parser: one ParseSource call on a source string made of a    *)
(* head (nothing, a local prefix, a scheme with "://" or ":"), a body and  *)
(* a tail of versions.                                                     *)
(***************************************************************************)
ParseSchemes ==
    {"http", "https", "HTTPS", "github", "GitHub", "google-well-known", "protodex", "file",
     "FILE", "ftp", "1x"}
ParseHeads ==
    {<<>>, <<".", "/">>, <<"..", "/">>, <<"/">>, <<"://">>, <<".">>}
    \cup {<<s, "://">> : s \in ParseSchemes} \cup {<<s, ":">> : s \in ParseSchemes}
ParseBodies ==
    {<<>>, <<"o">>, <<"o", "/", "r">>, <<"u", "@", "o", "/", "r">>, <<"o", "/", "r", "?", "q">>,
     <<"/", "o">>}
ParseTails ==
    {<<>>, <<"@">>, <<"@", "v1">>, <<"@", "v1", "@", "v2">>, <<"@", "v1", "/", "x">>}
ParseInputs == {h \o b \o t : h \in ParseHeads, b \in ParseBodies, t \in ParseTails}

Parse ==
    /\ ~parse.called
    /\ \E input \in ParseInputs :
        parse' = [called |-> TRUE, input |-> input, info |-> ParseSource(input)]
    /\ UNCHANGED <<fs, tmp, nops, last, cfg, run, onPath, gen, cmd, cache, project, procs>>

InitParse ==
    /\ fs = InitFS
    /\ tmp = 0
    /\ nops = 0
    /\ last = NoLast
    /\ cfg = NoConfig
    /\ run = NoRun
    /\ onPath = {}
    /\ gen = NoGen
    /\ cmd = NoCmd
    /\ parse = NoParse
    /\ cache = NoCache
    /\ project = NoProject
    /\ procs = NoProcs

NextParse == Parse

SpecParse == InitParse /\ [][NextParse]_vars

\* The input is classified Local before anything is parsed.
LocalByPrefix == HasPrefix(parse.input, <<"file", "://">>)
LocalByHeuristics ==
    /\ ~LocalByPrefix
    /\ \/ parse.input[1] = "/"
       \/ (Len(parse.input) >= 2 /\ parse.input[1] \in {".", ".."} /\ parse.input[2] = "/")
       \/ \A i \in 1..Len(parse.input) : parse.input[i] \notin {"://", "@"}
AtCount == Cardinality({i \in 1..Len(parse.input) : parse.input[i] = "@"})
BeforeLastAt ==
    IF AtCount = 0 THEN parse.input
    ELSE SubSeq(parse.input, 1, LastIndex(parse.input, "@") - 1)
AfterLastAt ==
    IF AtCount = 0 THEN <<>>
    ELSE SubSeq(parse.input, LastIndex(parse.input, "@") + 1, Len(parse.input))

\* C16: ParseSource fails on the empty string; gives Local with what
\* follows for a "file://" prefix; else gives Local with the input itself
\* for an input that begins with "./", "../" or "/" or that holds neither
\* "://" nor "@"; else parses what stands before the last "@" as a URL,
\* fails without a scheme and with a scheme outside the table, and gives
\* the type of the table with the host followed by the path otherwise; Raw
\* is the input on every success.
C16_ParsePrecedence ==
    parse.called =>
        IF parse.input = <<>> THEN parse.info.err = "empty source"
        ELSE IF LocalByPrefix
        THEN /\ parse.info.err = "" /\ parse.info.Type = SourceLocal
             /\ parse.info.Raw = parse.input
             /\ <<"file", "://">> \o parse.info.Source = parse.input
        ELSE IF LocalByHeuristics
        THEN /\ parse.info.err = "" /\ parse.info.Type = SourceLocal
             /\ parse.info.Raw = parse.input
             /\ parse.info.Source = parse.input
        ELSE IF ~urlParse(BeforeLastAt).ok THEN parse.info.err = "invalid source format"
        ELSE IF urlParse(BeforeLastAt).Scheme = "" THEN parse.info.err = "missing scheme in source"
        ELSE IF urlParse(BeforeLastAt).Scheme
                    \notin {"http", "https", "github", "google-well-known", "protodex", "file"}
        THEN parse.info.err = "unsupported source type"
        ELSE /\ parse.info.err = ""
             /\ <<urlParse(BeforeLastAt).Scheme, parse.info.Type>>
                    \in {<<"http", SourceHTTP>>, <<"https", SourceHTTP>>,
                         <<"github", SourceGitHub>>,
                         <<"google-well-known", SourceGoogleWellKnown>>,
                         <<"protodex", SourceProtodex>>, <<"file", SourceLocal>>}
             /\ parse.info.Raw = parse.input
             /\ parse.info.Source
                    = urlParse(BeforeLastAt).Host \o urlParse(BeforeLastAt).Path

C16_Witness ==
    /\ parse.called
    /\ parse.input = <<"github", "://", "u", "@", "o", "/", "r", "@", "v1">>
    /\ parse.info.err = "" /\ parse.info.Type = SourceGitHub
    /\ parse.info.Source = <<"o", "/", "r">>

\* C17: a descriptor of the scheme table has the text after the last "@"
\* of the input for its Version when that text is not empty, and else the
\* default of its type: "main" for GitHub, "latest" for the registry, the
\* empty string for HTTP, the well-known includes and Local; a descriptor
\* that is Local by the "file://" prefix or by the look of a local path
\* has an empty Version, whatever "@" the input holds.
C17_VersionAfterLastAt ==
    (parse.called /\ parse.info.err = "") =>
        IF LocalByPrefix \/ LocalByHeuristics THEN parse.info.Version = <<>>
        ELSE IF AfterLastAt # <<>> THEN parse.info.Version = AfterLastAt
        ELSE IF parse.info.Type = SourceGitHub THEN parse.info.Version = <<"main">>
        ELSE IF parse.info.Type = SourceProtodex THEN parse.info.Version = <<"latest">>
        ELSE /\ parse.info.Type \in {SourceHTTP, SourceGoogleWellKnown, SourceLocal}
             /\ parse.info.Version = <<>>

C17_Witness ==
    /\ parse.called /\ parse.info.err = ""
    /\ ~LocalByPrefix /\ ~LocalByHeuristics
    /\ AtCount = 2
    /\ parse.info.Type = SourceProtodex
    /\ parse.info.Version = <<"v2">>

\* The archive of repository o/r at the version of the last Fetch.
ArchiveOfOR ==
    IF last.f.Version = <<>>
    THEN <<"https://", "github.com", "/", "o", "/", "r", "/", "archive", "/", "refs", "/",
           "heads", "/", "main", ".zip">>
    ELSE <<"https://", "github.com", "/", "o", "/", "r", "/", "archive", "/", "refs", "/",
           "tags", "/">> \o last.f.Version \o <<".zip">>

\* C18: a GitHub Fetch asks for the archive of the same owner and
\* repository whichever accepted form its locator has.
C18_SameRepositoryFromEveryForm ==
    (Fetched /\ last.f.SourceType = SourceGitHub /\ last.f.Source \in GitHubForms) =>
        last.reqs = <<ArchiveOfOR>>

\* The form githubFetch does normalise: owner/repository without a host.
BareFormGivesRepository ==
    (Fetched /\ last.f.SourceType = SourceGitHub /\ last.f.Source = <<"o", "/", "r">>) =>
        last.reqs = <<ArchiveOfOR>>

(***************************************************************************)
(* GitHub extraction: one GitHub Fetch whose download succeeds, on         *)
(* archives that hold one top-level directory "r-1".                      *)
(***************************************************************************)
\* "proto2" and "protoc" are written as "proto" followed by "2" and "c".
ArchSibling == << <<"r-1", "/">>, <<"r-1", "/", "proto", "/">>,
                  <<"r-1", "/", "proto", "/", "y.proto">>,
                  <<"r-1", "/", "proto", "2", "/", "z.proto">>,
                  <<"r-1", "/", "x.proto">> >>
ArchNested == << <<"r-1", "/", "proto", "/", "proto", "/", "y.proto">>,
                 <<"r-1", "/", "proto", "c">>,
                 <<"r-1", "/", "empty", "/">> >>
ArchTopOnly == << <<"r-1", "/">>, <<"r-1", "/", "x.proto">> >>
ArchSameName == << <<"r-1", "/", "r-1", "/", "x.proto">>,
                   <<"r-1", "/", "proto", "/", "r-1", "/", "y.proto">> >>
GithubArchives == {ArchRepo, ArchSibling, ArchNested, ArchTopOnly, ArchSameName}

ExtractEnv ==
    [dl : {"ok"}, zipOk : {TRUE}, arch : GithubArchives, failAt : {0, 1}, markerOk : BOOLEAN]

FetchArchive ==
    /\ nops = 0
    /\ \E source \in {<<"o", "/", "r">>, <<"o", "/", "r", "/", "proto">>},
          version \in Versions, dest \in RemoteDests, e \in ExtractEnv :
          Ran(NewFetcher(SourceGitHub, source, version, dest), e,
              Fetch(NewFetcher(SourceGitHub, source, version, dest),
                    [fs |-> fs, tmp |-> tmp, reqs |-> <<>>], e))

NextExtract == FetchArchive

SpecExtract == InitFetch /\ [][NextExtract]_vars

\* The subdirectory the locator of the last Fetch asks for, and the prefix
\* of the entries the extraction is to take: the top-level directory, then
\* the subdirectory if one was asked for.
RequestedSubDir == SubSeq(last.f.Source, 5, Len(last.f.Source))
TakenPrefix ==
    IF RequestedSubDir = <<>> THEN <<"r-1", "/">>
    ELSE <<"r-1", "/">> \o RequestedSubDir \o <<"/">>
TakenEntries ==
    {i \in 1..Len(last.env.arch) :
        /\ last.env.arch[i][Len(last.env.arch[i])] # "/"
        /\ Len(last.env.arch[i]) > Len(TakenPrefix)
        /\ SubSeq(last.env.arch[i], 1, Len(TakenPrefix)) = TakenPrefix}
ExpectedFiles ==
    {Abs(last.f.Dest \o <<"/">>
         \o SubSeq(last.env.arch[i], Len(TakenPrefix) + 1, Len(last.env.arch[i]))) :
        i \in TakenEntries}
NewPaths == DOMAIN fs \ DOMAIN last.fsPre
MarkerOfLast == Append(Abs(last.f.Dest), ".protodex_fetched")
Extracted == Fetched /\ last.f.SourceType = SourceGitHub /\ last.env.failAt = 0

\* C19: when the entries of the archive lie under one top-level directory,
\* the files extractGitHubZip writes are the file entries, each at its path
\* without the top-level directory; with a subdirectory asked for, they
\* are the file entries under <top>/<subdir>/, each at its path below the
\* subdirectory, and no entry of a sibling whose name begins with the name
\* of the subdirectory; a directory entry makes nothing: every new
\* directory is one a written file lies in.
C19_ExtractsUnderPrefixOnly ==
    Extracted =>
        /\ {p \in NewPaths : fs[p].kind = "file"} \ {MarkerOfLast} = ExpectedFiles
        /\ \A p \in NewPaths :
              fs[p].kind # "file" =>
                  \E q \in ExpectedFiles \cup {MarkerOfLast} :
                      Len(p) < Len(q) /\ SubSeq(q, 1, Len(p)) = p

C19_Witness ==
    /\ Extracted /\ last.err = ""
    /\ last.env.arch = ArchSibling
    /\ RequestedSubDir = <<"proto">>
    /\ Append(Abs(last.f.Dest), "y.proto") \in DOMAIN fs
    /\ ExpectedFiles = {Append(Abs(last.f.Dest), "y.proto")}

(***************************************************************************)
(* The cache of the well-known includes: one resolution of a project that  *)
(* declares them as "b", over the states an earlier run or the user may    *)
(* have left /h/deps/b in.                                                 *)
(***************************************************************************)
IncludesDir == <<"h", "deps", "b">>
IncludesMarker == <<"h", "deps", "b", ".protodex-complete">>
IncludesFile == <<"h", "deps", "b", "any.proto">>

CacheStates ==
    {InitFS,
     Put(InitFS, IncludesDir, DirNode),
     Put(InitFS, IncludesDir, FileNode),
     Put(Put(InitFS, IncludesDir, DirNode), IncludesFile, FileNode),
     Put(Put(InitFS, IncludesDir, DirNode), IncludesMarker, FileNode),
     Put(Put(Put(InitFS, IncludesDir, DirNode), IncludesFile, FileNode), IncludesMarker,
         FileNode),
     Put(Put(InitFS, IncludesDir, DirNode), Append(IncludesDir, "sub"), DirNode)}

WellKnownDecls ==
    {[Decl(<<"b">>, SourceGoogleWellKnown, <<>>) EXCEPT !.Version = v] : v \in Versions}
WellKnownConfigs ==
    {<<d>> : d \in WellKnownDecls}
    \cup {<<Decl(<<"a">>, SourceLocal, s), d>> : s \in {SrcAbs, SrcMissing}, d \in WellKnownDecls}
    \cup {<<d, Decl(<<"a">>, SourceLocal, SrcAbs)>> : d \in WellKnownDecls}

WellKnownEnv ==
    {e \in Env : e.arch \in {ArchEmpty, ArchProtoc}}

ResolveWellKnown ==
    /\ nops = 0
    /\ \E envs \in {es \in [1..Len(cfg.Dependencies) -> WellKnownEnv] :
                       \A i \in 1..Len(cfg.Dependencies) :
                           cfg.Dependencies[i].Type = SourceLocal => es[i] = NoEnv} :
          Resolved(resolveCommand(NewResolver([fs |-> fs, tmp |-> tmp, reqs |-> <<>>]),
                                  cfg.Dependencies, envs))

InitWellKnown ==
    /\ fs \in CacheStates
    /\ tmp = 0
    /\ nops = 0
    /\ last = NoLast
    /\ cfg \in {[NoConfig EXCEPT !.Dependencies = d] : d \in WellKnownConfigs}
    /\ run = NoRun
    /\ onPath = {}
    /\ gen = NoGen
    /\ cmd = NoCmd
    /\ parse = NoParse
    /\ cache = NoCache
    /\ project = NoProject
    /\ procs = NoProcs

NextWellKnown == ResolveWellKnown

SpecWellKnown == InitWellKnown /\ [][NextWellKnown]_vars

\* The step of the last resolution that resolved the well-known includes
\* (0: the loop did not get to them), and the disk that step found.
IncludesStep ==
    IF \E i \in 1..Len(run.steps) : run.deps[i].Type = SourceGoogleWellKnown
    THEN CHOOSE i \in 1..Len(run.steps) : run.deps[i].Type = SourceGoogleWellKnown
    ELSE 0
DiskBeforeIncludes == IF IncludesStep = 1 THEN run.fsPre ELSE run.steps[IncludesStep - 1].fs
IncludesCached ==
    /\ IncludesDir \in DOMAIN DiskBeforeIncludes
    /\ DiskBeforeIncludes[IncludesDir].kind = "dir"
    /\ \E q \in DOMAIN DiskBeforeIncludes :
          Len(q) = Len(IncludesDir) + 1 /\ SubSeq(q, 1, Len(IncludesDir)) = IncludesDir

\* The release asked for: the version of the declaration, v32.0 without one.
IncludesVersion ==
    IF run.deps[IncludesStep].Version = <<>> THEN <<"v", "32.0">>
    ELSE run.deps[IncludesStep].Version

\* C20: when the directory of the includes exists with at least one entry,
\* with the ".protodex-complete" marker or without it, the resolution of
\* the declaration returns no error, requests nothing and leaves the disk
\* as it found it; when the directory is missing or empty, the archive of
\* the includes is requested.
C20_CachedIncludesUntouched ==
    (nops > 0 /\ IncludesStep # 0) =>
        IF IncludesCached
        THEN /\ run.steps[IncludesStep].err = ""
             /\ run.steps[IncludesStep].fs = DiskBeforeIncludes
             /\ run.reqs = <<>>
        ELSE run.reqs = <<<<"https://", "github.com", "/", "protocolbuffers", "/", "protobuf",
                            "/", "releases", "/", "download", "/">>
                          \o IncludesVersion \o <<"/", "protoc-">> \o Tail(IncludesVersion)
                          \o <<"-linux-x86_64.zip">>>>

C20_Witness ==
    /\ nops > 0 /\ IncludesStep # 0
    /\ IncludesCached
    /\ IncludesMarker \notin DOMAIN DiskBeforeIncludes
    /\ IncludesFile \in DOMAIN DiskBeforeIncludes
    /\ run.err = "" /\ run.reqs = <<>>
    /\ fs = run.fsPre

(***************************************************************************)
(* The dependency cache over the life of one resolver: NewResolver made    *)
(* the cache root, and ResolveDependencies, Clear and ListCached are       *)
(* called on it in any order.                                              *)
(***************************************************************************)
MaxCacheOps == 3

CacheRoot == Abs(outputPath)

UserFile == Append(CacheRoot, "file.txt")

GoogleProtobuf == <<"google", "/", "protobuf">>

CacheDeclarable ==
    {Decl(<<"a">>, SourceLocal, SrcAbs), Decl(<<"a">>, SourceHTTP, HttpsURL),
     Decl(<<"b">>, SourceGitHub, <<"o", "/", "r">>),
     Decl(<<"b">>, SourceGoogleWellKnown, <<>>),
     Decl(GoogleProtobuf, SourceGoogleWellKnown, <<>>)}

CacheConfigs ==
    {c \in UNION {[1..n -> CacheDeclarable] : n \in 1..MaxDeps} :
        \A i, j \in 1..Len(c) : i # j => c[i].Name # c[j].Name}

\* An environment in which nothing fails.
Clean(e) == e.dl = "ok" /\ e.zipOk /\ e.failAt = 0 /\ e.markerOk

CacheEnv ==
    {e \in ResolveEnv : e.dl \in {"ok", "get"} /\ e.arch \in {ArchRepo, ArchProtoc}
                          /\ e.markerOk}

CacheEnvsFor(deps) ==
    {es \in [1..Len(deps) -> CacheEnv \cup {NoEnv}] :
        \A i \in 1..Len(deps) : (deps[i].Type = SourceLocal) <=> (es[i] = NoEnv)}

\* The index of the declaration the run r stopped at with files of its own
\* written below its cache directory, 0 when there is none.
PartialAt(deps, f, r) ==
    IF r.err = "" \/ r.steps = <<>> THEN 0
    ELSE IF deps[Len(r.steps)].Type = SourceLocal THEN 0
    ELSE IF Below(r.st.fs, deps[Len(r.steps)].Name)
            = Below(IF Len(r.steps) = 1 THEN f ELSE r.steps[Len(r.steps) - 1].fs,
                    deps[Len(r.steps)].Name)
    THEN 0
    ELSE Len(r.steps)

CacheResolved(envs, r) ==
    /\ fs' = r.st.fs
    /\ tmp' = r.st.tmp
    /\ nops' = nops + 1
    /\ run' = [deps |-> cfg.Dependencies, err |-> r.err, name |-> r.name, steps |-> r.steps,
               reqs |-> r.st.reqs, fsPre |-> fs, tmpPre |-> tmp,
               again |-> nops > 0 /\ run.err = ""]
    /\ cache' = [op |-> "resolve", names |-> {}, err |-> "", envs |-> envs,
                 ok |-> r.err = "",
                 won |-> cache.won \/ r.err = "",
                 wonEnvs |-> IF r.err = "" THEN envs ELSE cache.wonEnvs,
                 cleared |-> FALSE,
                 partial |-> PartialAt(cfg.Dependencies, fs, r),
                 afterClear |-> cache.cleared, prevWon |-> cache.won,
                 prevEnvs |-> cache.wonEnvs, prevPartial |-> cache.partial]
    /\ UNCHANGED <<last, cfg, onPath, gen, cmd, parse, project, procs>>

\* Manager.ResolveDependencies on the resolver the manager holds.
CacheResolve ==
    /\ nops < MaxCacheOps
    /\ \E envs \in CacheEnvsFor(cfg.Dependencies) :
          CacheResolved(envs, ManagerResolveDependencies(
                                  cfg.Dependencies, [fs |-> fs, tmp |-> tmp, reqs |-> <<>>],
                                  envs))

CacheCleared(c) ==
    /\ fs' = c.fs
    /\ nops' = nops + 1
    /\ cache' = [cache EXCEPT !.op = "clear", !.names = {}, !.err = c.err,
                              !.ok = IF c.err = "" THEN FALSE ELSE @,
                              !.cleared = IF c.err = "" THEN TRUE ELSE @,
                              !.partial = IF c.err = "" THEN 0 ELSE @]
    /\ UNCHANGED <<tmp, last, cfg, run, onPath, gen, cmd, parse, project, procs>>

\* Manager.ClearCache
CacheClear ==
    /\ nops < MaxCacheOps
    /\ \E removeOk \in BOOLEAN : CacheCleared(Clear(fs, removeOk))

CacheListed(l) ==
    /\ nops' = nops + 1
    /\ cache' = [cache EXCEPT !.op = "list", !.names = l.names, !.err = l.err]
    /\ UNCHANGED <<fs, tmp, last, cfg, run, onPath, gen, cmd, parse, project, procs>>

\* Manager.ListCachedDependencies
CacheList ==
    /\ nops < MaxCacheOps
    /\ CacheListed(ListCached(fs))

InitCache ==
    /\ fs \in {InitFS, Put(InitFS, UserFile, FileNode)}
    /\ tmp = 0
    /\ nops = 0
    /\ last = NoLast
    /\ cfg \in {[NoConfig EXCEPT !.Dependencies = d] : d \in CacheConfigs}
    /\ run = NoRun
    /\ onPath = {}
    /\ gen = NoGen
    /\ cmd = NoCmd
    /\ parse = NoParse
    /\ cache = NoCache
    /\ project = NoProject
    /\ procs = NoProcs

NextCache == CacheResolve \/ CacheClear \/ CacheList

SpecCache == InitCache /\ [][NextCache]_vars

UnderRoot(f) == {q \in DOMAIN f : Len(q) >= Len(CacheRoot) /\ SubSeq(q, 1, Len(CacheRoot)) = CacheRoot}

\* C21: when Clear returned no error, the cache root and everything under
\* it are gone; ListCached called after such a Clear, or while the cache
\* root does not exist, returns no name and no error; and ListCached never
\* returns the name of a plain file of the cache root.
C21_ClearEmptiesListSkipsFiles ==
    /\ (cache.op = "clear" /\ cache.err = "") => UnderRoot(fs) = {}
    /\ (cache.op = "list" /\ (cache.cleared \/ ~Exists(fs, CacheRoot)))
          => (cache.names = {} /\ cache.err = "")
    /\ cache.op = "list"
          => \A n \in cache.names :
                Append(CacheRoot, n) \in DOMAIN fs /\ fs[Append(CacheRoot, n)].kind # "file"

\* A resolution filled the cache, Clear emptied it, and ListCached then
\* returned nothing.
C21_Witness ==
    /\ cache.op = "list" /\ cache.cleared /\ cache.won
    /\ UserFile \in DOMAIN run.fsPre
    /\ UnderRoot(fs) = {}
    /\ cache.names = {} /\ cache.err = ""

\* C25: when ListCached is called after a ResolveDependencies that succeeded
\* (and no Clear in between), it returns no error and the Name of every
\* declaration of the list, whatever the type of the declaration and also
\* when the Name holds a path separator.
C25_ListsEveryResolvedName ==
    (cache.op = "list" /\ cache.ok) =>
        /\ cache.err = ""
        /\ \A i \in 1..Len(cfg.Dependencies) : Concat(cfg.Dependencies[i].Name) \in cache.names

\* The same, for the declarations of an archive that holds files, under a
\* Name without a separator.
ListsEveryArchiveName ==
    (cache.op = "list" /\ cache.ok) =>
        \A i \in 1..Len(cfg.Dependencies) :
            (/\ cfg.Dependencies[i].Type # SourceLocal
             /\ Len(cfg.Dependencies[i].Name) = 1)
                => Concat(cfg.Dependencies[i].Name) \in cache.names

\* A ResolveDependencies that ran on an emptied cache: Clear had succeeded,
\* the declarations had been resolved with success before it, and the
\* network and the disk do now what they did then, with no failure.
ResolvedAgainAfterClear ==
    /\ cache.op = "resolve" /\ cache.afterClear /\ cache.prevWon
    /\ cache.envs = cache.prevEnvs
    /\ \A i \in 1..Len(cache.envs) : Clean(cache.envs[i])

\* C26: a ResolveDependencies called after Clear on the same resolver, with
\* declarations that were resolved with success before the Clear, succeeds
\* again, for every source type.
C26_ResolvesAgainAfterClear ==
    ResolvedAgainAfterClear => run.err = ""

\* The same, for the lists that hold no Local declaration.
RemoteResolvesAgainAfterClear ==
    (ResolvedAgainAfterClear /\ \A i \in 1..Len(run.deps) : run.deps[i].Type # SourceLocal)
        => run.err = ""

\* The disk the last ResolveDependencies found when it came to its j-th
\* declaration.
DiskBeforeStep(j) == IF j = 1 THEN run.fsPre ELSE run.steps[j - 1].fs

\* The requests the last ResolveDependencies sent for its j-th declaration.
RequestsOfStep(j) ==
    resolveDependency(run.deps[j], [fs |-> DiskBeforeStep(j), tmp |-> run.tmpPre, reqs |-> <<>>],
                      cache.envs[j]).st.reqs

\* The last ResolveDependencies came to the declaration the one before it
\* had failed at, with files written below its cache directory.
RetriesPartial ==
    /\ cache.op = "resolve" /\ cache.prevPartial > 0
    /\ Len(run.steps) >= cache.prevPartial

\* C29: when the resolution of an HTTP, GitHub or well-known declaration
\* failed after files were written to its cache directory, the next
\* ResolveDependencies that comes to the declaration requests its archive
\* again.
C29_PartialContentIsRetried ==
    RetriesPartial => RequestsOfStep(cache.prevPartial) # <<>>

\* The same, for the HTTP and GitHub declarations.
PartialFetchIsRetried ==
    (RetriesPartial /\ run.deps[cache.prevPartial].Type # SourceGoogleWellKnown)
        => RequestsOfStep(cache.prevPartial) # <<>>

(***************************************************************************)
(* The marker write of a fetch, stated on the last Fetch.                  *)
(***************************************************************************)
DiskBeforeFetch == [fs |-> last.fsPre, tmp |-> last.tmpPre, reqs |-> <<>>]

\* What the download and the extraction of the last Fetch returned.
ExtractionOfLast ==
    IF last.f.SourceType = SourceGitHub
    THEN downloadAndExtractGithub(last.f, DiskBeforeFetch, <<"github.com", "/">> \o last.f.Source,
                                  IF last.f.Version = <<>> THEN <<"main">> ELSE last.f.Version,
                                  last.env)
    ELSE downloadAndExtract(last.f, DiskBeforeFetch, last.env)

\* The last Fetch came to its download.
Downloads ==
    /\ nops > 0
    /\ \/ /\ last.f.SourceType = SourceHTTP
          /\ urlParse(last.f.Source).ok
          /\ urlParse(last.f.Source).Scheme \in {"http", "https"}
          /\ ~isFetched(last.fsPre, last.f.Dest)
       \/ /\ last.f.SourceType = SourceGitHub
          /\ last.f.Source # <<>>

\* The download and the extraction of the last Fetch succeeded, and the
\* marker file could not be written.
MarkerWriteFailed ==
    /\ Downloads
    /\ ExtractionOfLast.err = ""
    /\ markAsFetched(last.f, ExtractionOfLast.st, last.env).err # ""

\* C24: when the download and the extraction succeeded and the marker file
\* cannot be written, Fetch returns no error and leaves the extracted
\* content on disk, for an HTTP source and for a GitHub source.
C24_MarkerFailureTolerated ==
    MarkerWriteFailed => (last.err = "" /\ fs = ExtractionOfLast.st.fs)

\* The same, for an HTTP source; and the content stays for a GitHub one.
HttpMarkerFailureTolerated ==
    MarkerWriteFailed =>
        /\ fs = ExtractionOfLast.st.fs
        /\ last.f.SourceType = SourceHTTP => last.err = ""

(***************************************************************************)
(* The source command: a source string is parsed, and the fetcher built    *)
(* from what the parser returned fetches into a fresh temporary directory, *)
(* which is removed when the command returns.                              *)
(***************************************************************************)
TempDest == <<"/", "t">>

SourceEnv == {e \in Env : Clean(e) /\ e.arch \in {ArchEmpty, ArchRepo}}

\* sourceCmd once os.MkdirTemp made the directory (md) and
\* NewFetcherFromURL returned n.
sourceFetcherMade(md, n, e) ==
    IF n.err # "" THEN [st |-> [fs |-> md.fs, tmp |-> tmp, reqs |-> <<>>],
                        err |-> "failed to initialize fetcher"]
    ELSE Fetch(n.f, [fs |-> md.fs, tmp |-> tmp, reqs |-> <<>>], e)

sourceDirMade(md, source, e) ==
    IF ~md.ok THEN [st |-> [fs |-> fs, tmp |-> tmp, reqs |-> <<>>],
                    err |-> "failed to create temp directory"]
    ELSE sourceFetcherMade(md, NewFetcherFromURL(source, TempDest), e)

SourceChecked(source, e, r) ==
    /\ fs' = RemoveAll(r.st.fs, Abs(TempDest))
    /\ tmp' = r.st.tmp
    /\ nops' = nops + 1
    /\ parse' = [called |-> TRUE, input |-> source, info |-> ParseSource(source)]
    /\ last' = [f |-> NewFetcherFromURL(source, TempDest).f, env |-> e, err |-> r.err,
                reqs |-> r.st.reqs, fsPre |-> fs, tmpPre |-> tmp]
    /\ UNCHANGED <<cfg, run, onPath, gen, cmd, cache, project, procs>>

\* sourceCmd.RunE
SourceCommand ==
    /\ nops = 0
    /\ \E source \in ParseInputs, e \in SourceEnv :
          SourceChecked(source, e, sourceDirMade(MkdirAll(fs, Abs(TempDest)), source, e))

NextSource == SourceCommand

SpecSource == InitFetch /\ [][NextSource]_vars

\* The fetcher of the source command was built from a source string that
\* ParseSource took for an HTTP source, and Fetch was called on it.
FetchedParsedHttp ==
    /\ nops > 0 /\ parse.called
    /\ parse.info.err = "" /\ parse.info.Type = SourceHTTP

\* C27: the fetcher built from a source string that ParseSource classifies
\* as HTTP passes the scheme check of the HTTP fetch: Fetch does not fail
\* with the unsupported-scheme error.
C27_ParsedHttpPassesSchemeCheck ==
    FetchedParsedHttp => last.err # "unsupported URL scheme"

\* What happens instead: the locator of the fetcher is the host and path of
\* the source string, and the HTTP fetch refuses it before any request.
ParsedHttpIsRefused ==
    FetchedParsedHttp =>
        /\ last.err = "unsupported URL scheme"
        /\ last.reqs = <<>>
        /\ last.f.Source = parse.info.Source

(***************************************************************************)
(* Zip extraction in its four variants, each called once on an archive     *)
(* whose entry names may hold ".." segments.                               *)
(***************************************************************************)
ArchUp == << <<"..", "/", "up.proto">>, <<"x.proto">> >>
ArchRepoUp == << <<"r-1", "/", "x.proto">>, <<"r-1", "/", "..", "/", "..", "/", "up.proto">> >>
ArchIncludeUp ==
    << <<"include", "/", "x.proto">>, <<"include", "/", "..", "/", "..", "/", "up.proto">> >>
ArchInclude == << <<"include", "/", "x.proto">>, <<"bin", "/", "protoc">> >>

UnzipArchives == {ArchRepo, ArchProtoc, ArchInclude, ArchUp, ArchRepoUp, ArchIncludeUp}

UnzipEnv ==
    [dl : {"ok"}, zipOk : {TRUE}, arch : UnzipArchives, failAt : {0, 1}, markerOk : BOOLEAN]

\* Fetch of an HTTP, GitHub or registry descriptor: extractZip,
\* extractGitHubZip, extractZipArchive.
UnzipFetch ==
    /\ nops = 0
    /\ \E d \in {[type |-> SourceHTTP, source |-> HttpsURL],
                   [type |-> SourceGitHub, source |-> <<"o", "/", "r">>],
                   [type |-> SourceProtodex, source |-> <<"pkg">>]},
          dest \in RemoteDests, e \in UnzipEnv :
          Ran(NewFetcher(d.type, d.source, <<"v", "1">>, dest), e,
              Fetch(NewFetcher(d.type, d.source, <<"v", "1">>, dest),
                    [fs |-> fs, tmp |-> tmp, reqs |-> <<>>], e))

\* resolveGoogleWellKnownProtos: extractIncludes into the cache directory
\* of the declaration.
UnzipIncludes ==
    /\ nops = 0
    /\ \E name \in {<<"a">>, <<"b">>}, e \in UnzipEnv :
          Ran(NewFetcher(SourceGoogleWellKnown, <<>>, <<>>, Join(outputPath, name)), e,
              resolveGoogleWellKnownProtos(Decl(name, SourceGoogleWellKnown, <<>>),
                                           [fs |-> fs, tmp |-> tmp, reqs |-> <<>>], e))

NextUnzip == UnzipFetch \/ UnzipIncludes

SpecUnzip == InitFetch /\ [][NextUnzip]_vars

\* The paths the last extraction made or changed.
WrittenPaths == {q \in DOMAIN fs : q \notin DOMAIN last.fsPre \/ fs[q] # last.fsPre[q]}

\* An entry name of the archive holds a ".." segment.
HasDotDot(arch) == \E i \in 1..Len(arch) : Contains(arch[i], "..")

\* C28: every file an extraction writes, in each of the four variants and
\* for every archive, is at a path inside the destination directory.
C28_ExtractsInsideDestination ==
    nops > 0 =>
        \A q \in WrittenPaths : fs[q].kind = "file" => HasPrefix(q, Abs(last.f.Dest))

\* The same, for the archives whose entry names hold no ".." segment.
PlainNamesStayInside ==
    (nops > 0 /\ ~HasDotDot(last.env.arch)) =>
        \A q \in WrittenPaths : fs[q].kind = "file" => HasPrefix(q, Abs(last.f.Dest))

(***************************************************************************)
(* The flags of the custom plugins in the vector Process returns.          *)
(***************************************************************************)
\* The global plugins of the project file, then the plugins the project
\* file declares for the language that is generated.
MergedPlugins == cfg.Plugins \o DeclaredLanguage.Plugins

\* The vector args is, plugin after plugin, the --<Name>_out flag of the
\* plugin with its own OutputDir, or dir when it has none, followed by the
\* option flags of the plugin in some order.
RECURSIVE PluginBlocks(_, _, _)
PluginBlocks(args, plugins, dir) ==
    IF plugins = <<>> THEN args = <<>>
    ELSE /\ Len(args) >= 1 + Len(Head(plugins).Options)
         /\ args[1] = <<"--", Head(plugins).Name, "_out", "=">>
                       \o (IF Head(plugins).OutputDir = <<>> THEN dir
                           ELSE Head(plugins).OutputDir)
         /\ {args[i] : i \in 2..(1 + Len(Head(plugins).Options))}
                = {<<"--", o.k, "=", o.v>> :
                      o \in {Head(plugins).Options[i] : i \in 1..Len(Head(plugins).Options)}}
         /\ PluginBlocks(SubSeq(args, 2 + Len(Head(plugins).Options), Len(args)),
                         Tail(plugins), dir)

\* C22: the vector Process returns begins with the --<language>_out flag,
\* and continues with one block for each custom plugin whose Command is
\* found, the global plugins of the project file before the plugins of the
\* language, each in declaration order: the plugin's --<Name>_out=<dir>
\* flag, dir being the plugin's OutputDir or, when that is empty, the
\* output directory of the language, then the option flags of that plugin.
C22_PluginFlagsInMergedOrder ==
    (ProcessCalled /\ ProcessResult.err = "") =>
        /\ ProcessResult.args # <<>>
        /\ ProcessResult.args[1] = <<"--", DeclaredLanguage.Name, "_out", "=">> \o ResolvedOutputDir
        /\ PluginBlocks(Tail(ProcessResult.args),
                        SelectSeq(MergedPlugins, LAMBDA p : p.Command \in ProcessResult.path),
                        ResolvedOutputDir)

\* A global plugin without an OutputDir and a plugin of the language with
\* two options were both found, and the two options came out in the other
\* order.
C22_Witness ==
    /\ ProcessCalled /\ ProcessResult.err = ""
    /\ cfg.Plugins = <<PluginDoc>> /\ DeclaredLanguage.Plugins = <<PluginGrpc>>
    /\ PluginDoc.Command \in ProcessResult.path /\ PluginGrpc.Command \in ProcessResult.path
    /\ gen.env.rev
    /\ ResolvedOutputDir = <<"out">>
    /\ Len(ProcessResult.args) = 6
    /\ ProcessResult.args[2] = <<"--", "doc", "_out", "=", "out">>
    /\ ProcessResult.args[4] = <<"--", "go-grpc", "_out", "=", "gen", "/", "grpc">>
    /\ ProcessResult.args[5] = <<"--", "go-grpc_opt2", "=", "require_unimplemented_servers=false">>

(***************************************************************************)
(* AddDependency called again and again on one manager: cfg.Dependencies   *)
(* is the list in memory, project.deps the list the project file holds.    *)
(***************************************************************************)
MaxAdds == 3

\* The loop over the declared dependencies, were only the first looked at.
declared_firstOnly(deps, name) == deps # <<>> /\ deps[1].Name = name

\* The loop over the declared dependencies: one of them has the name.
declared(deps, name) == \E i \in 1..Len(deps) : deps[i].Name = name

\* AddDependency once the new declaration is appended and saved: the
\* declaration is resolved if that was asked for (r: what the resolver did).
dependencySaved(deps, st, resolve, r) ==
    IF ~resolve THEN [deps |-> deps, saved |-> deps, st |-> st, err |-> ""]
    ELSE [deps |-> deps, saved |-> deps, st |-> r.st,
          err |-> IF r.err # "" THEN "failed to resolve dependency" ELSE ""]

\* AddDependency once the source is parsed (info) and the name is new;
\* saveOk: Manager.Save wrote the project file.
dependencyAppended(deps, saved, depConfig, resolve, saveOk, st, e) ==
    IF ~saveOk
    THEN [deps |-> Append(deps, depConfig), saved |-> saved, st |-> st,
          err |-> "failed to save project config"]
    ELSE dependencySaved(Append(deps, depConfig), st, resolve,
                         ResolveDependencies(<<depConfig>>, st, <<e>>))

\* Manager.AddDependency: [deps, saved, st, err]
AddDependency(deps, saved, name, source, resolve, saveOk, st, e) ==
    IF ParseSource(source).err # ""
    THEN [deps |-> deps, saved |-> saved, st |-> st,
          err |-> "failed to parse dependency source"]
    ELSE IF declared(deps, name)
    THEN [deps |-> deps, saved |-> saved, st |-> st, err |-> "dependency already exists"]
    ELSE dependencyAppended(deps, saved,
                            [Name |-> name, Source |-> ParseSource(source).Source,
                             Type |-> ParseSource(source).Type,
                             Version |-> ParseSource(source).Version],
                            resolve, saveOk, st, e)

AddNames == {<<"a">>, <<"b">>}

AddSources ==
    {SrcAbs, <<"https", "://", "o", "/", "r">>, <<"github", "://", "o", "/", "r">>,
     <<"ftp", "://", "o">>, <<"o", "/", "r">>, <<>>}

AddEnv == {e \in CacheEnv : e.arch = ArchRepo /\ e.failAt = 0}

Added(name, source, r) ==
    /\ fs' = r.st.fs
    /\ tmp' = r.st.tmp
    /\ nops' = nops + 1
    /\ cfg' = [cfg EXCEPT !.Dependencies = r.deps]
    /\ project' = [deps |-> r.saved, called |-> TRUE, name |-> name, source |-> source,
                   err |-> r.err, depsPre |-> cfg.Dependencies, savedPre |-> project.deps]
    /\ UNCHANGED <<last, run, onPath, gen, cmd, parse, cache, procs>>

Add ==
    /\ nops < MaxAdds
    /\ \E name \in AddNames, source \in AddSources, resolve \in BOOLEAN, saveOk \in BOOLEAN,
          e \in AddEnv :
          Added(name, source,
                AddDependency(cfg.Dependencies, project.deps, name, source, resolve, saveOk,
                              [fs |-> fs, tmp |-> tmp, reqs |-> <<>>], e))

InitAdd ==
    /\ fs = InitFS
    /\ tmp = 0
    /\ nops = 0
    /\ last = NoLast
    /\ cfg \in {[NoConfig EXCEPT !.Dependencies = d] :
                    d \in {<<>>, <<Decl(<<"a">>, SourceLocal, SrcAbs)>>}}
    /\ run = NoRun
    /\ onPath = {}
    /\ gen = NoGen
    /\ cmd = NoCmd
    /\ parse = NoParse
    /\ cache = NoCache
    /\ project = [NoProject EXCEPT !.deps = cfg.Dependencies]
    /\ procs = NoProcs

NextAdd == Add

SpecAdd == InitAdd /\ [][NextAdd]_vars

DistinctNames(deps) == \A i, j \in 1..Len(deps) : i # j => deps[i].Name # deps[j].Name

\* C30: after any sequence of AddDependency calls the declared names are
\* pairwise distinct, in memory and in the project file; a call with a name
\* that is declared already, or with a source that does not parse, returns
\* an error and changes neither the list in memory nor the project file.
C30_NamesStayDistinct ==
    /\ DistinctNames(cfg.Dependencies)
    /\ DistinctNames(project.deps)
    /\ (/\ project.called
        /\ \/ \E i \in 1..Len(project.depsPre) : project.depsPre[i].Name = project.name
           \/ ParseSource(project.source).err # "")
          => /\ project.err # ""
             /\ cfg.Dependencies = project.depsPre
             /\ project.deps = project.savedPre

\* Two dependencies were added and saved, and a third call with the name of
\* the second was refused.
C30_Witness ==
    /\ nops = 3 /\ project.called /\ project.err = "dependency already exists"
    /\ Len(cfg.Dependencies) = 2 /\ project.deps = cfg.Dependencies
    /\ project.name = cfg.Dependencies[2].Name
    /\ ParseSource(project.source).err = ""

(***************************************************************************)
(* Two invocations fetch the same HTTP source into the same cache          *)
(* directory at the same time. Each runs urlFetch in four steps, the       *)
(* check of isFetched, the download, the extraction and the marker write;  *)
(* nothing in the code orders the steps of one with the steps of the other.*)
(***************************************************************************)
Procs == {1, 2}

RaceFetcher == NewFetcher(SourceHTTP, HttpsURL, <<>>, CacheA)

RaceMarker == Abs(Join(RaceFetcher.Dest, FetchedMarkerFile))

RaceEnv == {e \in Env : e.dl \in {"ok", "get"} /\ e.zipOk /\ e.arch \in {ArchEmpty, ArchRepo}}

\* An invocation that has not begun: pc is the step it is at, passed what
\* the check decided, markerAtCheck whether the marker file was there at
\* the check, reqs the requests it sent, err what it returned.
Waiting == [pc |-> "check", passed |-> FALSE, markerAtCheck |-> FALSE, env |-> NoEnv,
            reqs |-> <<>>, err |-> ""]

\* urlFetch up to the call of downloadAndExtract: the source is an https
\* URL, and isFetched decides.
RaceCheck ==
    \E p \in Procs :
        /\ procs[p].pc = "check"
        /\ procs' = [procs EXCEPT ![p] =
                        [@ EXCEPT !.pc = IF isFetched(fs, RaceFetcher.Dest) THEN "done"
                                         ELSE "download",
                                  !.passed = ~isFetched(fs, RaceFetcher.Dest),
                                  !.markerAtCheck = RaceMarker \in DOMAIN fs]]
        /\ UNCHANGED <<fs, tmp, nops, last, cfg, run, onPath, gen, cmd, parse, cache, project>>

RaceDownloaded(p, e, d) ==
    /\ fs' = d.st.fs
    /\ tmp' = d.st.tmp
    /\ procs' = [procs EXCEPT ![p] =
                    [@ EXCEPT !.pc = IF d.err # "" THEN "done" ELSE "extract",
                              !.env = e, !.reqs = d.st.reqs,
                              !.err = IF d.err # "" THEN "failed to fetch from URL" ELSE ""]]
    /\ UNCHANGED <<nops, last, cfg, run, onPath, gen, cmd, parse, cache, project>>

\* Fetcher.download
RaceDownload ==
    \E p \in Procs, e \in RaceEnv :
        /\ procs[p].pc = "download"
        /\ RaceDownloaded(p, e, download([fs |-> fs, tmp |-> tmp, reqs |-> procs[p].reqs],
                                         RaceFetcher.Source, e))

RaceExtracted(p, x) ==
    /\ fs' = x.st.fs
    /\ tmp' = x.st.tmp
    /\ procs' = [procs EXCEPT ![p] =
                    [@ EXCEPT !.pc = IF x.err # "" THEN "done" ELSE "mark",
                              !.err = IF x.err # "" THEN "failed to fetch from URL" ELSE ""]]
    /\ UNCHANGED <<nops, last, cfg, run, onPath, gen, cmd, parse, cache, project>>

\* extractZip, and the removal of the temporary file
RaceExtract ==
    \E p \in Procs :
        /\ procs[p].pc = "extract"
        /\ RaceExtracted(p, extracted([fs |-> fs, tmp |-> tmp, reqs |-> procs[p].reqs],
                                      extractZip(fs, procs[p].env, RaceFetcher.Dest)))

RaceMarked(p, m) ==
    /\ fs' = m.st.fs
    /\ procs' = [procs EXCEPT ![p] = [@ EXCEPT !.pc = "done", !.err = ""]]
    /\ UNCHANGED <<tmp, nops, last, cfg, run, onPath, gen, cmd, parse, cache, project>>

\* markAsFetched, its error dropped
RaceMark ==
    \E p \in Procs :
        /\ procs[p].pc = "mark"
        /\ RaceMarked(p, markAsFetched(RaceFetcher, [fs |-> fs, tmp |-> tmp, reqs |-> <<>>],
                                       procs[p].env))

InitRace ==
    /\ fs \in {InitFS,
                Put(Put(Put(InitFS, Abs(CacheA), DirNode), Abs(Join(CacheA, <<"x.proto">>)),
                        FileNode), RaceMarker, FileNode)}
    /\ tmp = 0
    /\ nops = 0
    /\ last = NoLast
    /\ cfg = NoConfig
    /\ run = NoRun
    /\ onPath = {}
    /\ gen = NoGen
    /\ cmd = NoCmd
    /\ parse = NoParse
    /\ cache = NoCache
    /\ project = NoProject
    /\ procs = [p \in Procs |-> Waiting]

NextRace == RaceCheck \/ RaceDownload \/ RaceExtract \/ RaceMark

SpecRace == InitRace /\ [][NextRace]_vars

\* C23: the check of an invocation looks at the marker file alone, not at
\* what the other invocation is doing: an invocation that checks while the
\* marker file is absent goes on to download, one that finds the marker
\* stops, and every invocation that went on has sent its own request by
\* the time it extracts. Nothing keeps both from being between the check
\* and the marker write at once.
C23_CheckLooksAtMarkerOnly ==
    \A p \in Procs :
        /\ procs[p].pc # "check" => (procs[p].passed <=> ~procs[p].markerAtCheck)
        /\ procs[p].pc \in {"extract", "mark"} => procs[p].passed /\ Len(procs[p].reqs) = 1
        /\ (procs[p].pc = "done" /\ ~procs[p].passed)
              => (procs[p].reqs = <<>> /\ procs[p].err = "")

\* Both invocations passed the check, both downloaded and extracted into
\* the same directory, and neither has written the marker yet.
C23_Witness ==
    /\ \A p \in Procs :
          /\ procs[p].pc = "mark" /\ procs[p].passed
          /\ procs[p].reqs = <<HttpsURL>>
          /\ procs[p].env.arch = ArchRepo
    /\ RaceMarker \notin DOMAIN fs
    /\ Abs(Join(CacheA, <<"r-1", "/", "x.proto">>)) \in DOMAIN fs
====
